---- MODULE Spec2Model ----
(***************************************************************************)
(* A model of the router of src/lib/router.js and of the Route of         *)
(* src/unnamed/part_000: route registration, path matching and the        *)
(* dispatch walk of router.middleware, executed as a machine of generator *)
(* frames so that nesting, short-circuiting and raising are explicit.     *)
(*                                                                         *)
(* Strings that the code inspects character by character (paths and path  *)
(* templates) are sequences of one-character strings; a template token    *)
(* ":x" stands for the placeholder `:x`.  A params object is the set of   *)
(* its <<key, value>> pairs, wrapped in a record that tells an undefined  *)
(* `ctx.params` from an empty one.                                         *)
(***************************************************************************)
EXTENDS Integers, Sequences, FiniteSets, TLC

\* ------------------------------------------------------------------ bounds
MaxRoutes == 2
MaxSubRoutes == 1

\* ------------------------------------------------------------ identifiers
Top == 1
Sub == 2
RouterIds == {Top, Sub}
Requests == {1, 2}

\* The request of the specifications that serve one request.
First == 1

\* ---------------------------------------------------------------- strings
Slash == "/"

ParamTokens == {":x", ":y"}

IsParamToken(tok) == tok \in ParamTokens

ParamName(tok) == IF tok = ":x" THEN "x" ELSE "y"

\* The verbs of the `methods` package (router.js line 8): the verbs of
\* http.METHODS in lower case, in the order of that list.
HttpMethods ==
  << "acl", "bind", "checkout", "connect", "copy", "delete", "get", "head",
     "link", "lock", "m-search", "merge", "mkactivity", "mkcalendar", "mkcol",
     "move", "notify", "options", "patch", "post", "propfind", "proppatch",
     "purge", "put", "query", "rebind", "report", "search", "source",
     "subscribe", "trace", "unbind", "unlink", "unlock", "unsubscribe" >>

UpperCasedList ==
  << "ACL", "BIND", "CHECKOUT", "CONNECT", "COPY", "DELETE", "GET", "HEAD",
     "LINK", "LOCK", "M-SEARCH", "MERGE", "MKACTIVITY", "MKCALENDAR", "MKCOL",
     "MOVE", "NOTIFY", "OPTIONS", "PATCH", "POST", "PROPFIND", "PROPPATCH",
     "PURGE", "PUT", "QUERY", "REBIND", "REPORT", "SEARCH", "SOURCE",
     "SUBSCRIBE", "TRACE", "UNBIND", "UNLINK", "UNLOCK", "UNSUBSCRIBE" >>

UpperCased ==
  [m \in {HttpMethods[k] : k \in 1..Len(HttpMethods)} |->
     UpperCasedList[CHOOSE k \in 1..Len(HttpMethods) : HttpMethods[k] = m]]

\* method.toUpperCase() (part_000 line 39) of a verb; a string that has no
\* lower-case letter is left as it is.
toUpperCase(m) == IF m \in DOMAIN UpperCased THEN UpperCased[m] ELSE m

RECURSIVE MapUpper(_)
MapUpper(ms) ==
  IF ms = <<>> THEN <<>> ELSE <<toUpperCase(Head(ms))>> \o MapUpper(Tail(ms))

IndexOf(s, x) == \E k \in 1..Len(s) : s[k] = x

Front(s) == SubSeq(s, 1, Len(s) - 1)

\* Array.prototype.join: the elements with the separator between them, as a
\* sequence of pieces of the resulting string.
RECURSIVE join(_, _)
join(xs, sep) ==
  IF Len(xs) <= 1 THEN xs
  ELSE <<Head(xs), sep>> \o join(Tail(xs), sep)

\* ----------------------------------------------------------------- params
Undefined == [defined |-> FALSE, map |-> {}]

Obj(pairs) == [defined |-> TRUE, map |-> pairs]

Keys(o) == {kv[1] : kv \in o.map}

mergeParams(a, b) ==
  IF ~b.defined THEN a
  ELSE Obj({kv \in a.map : kv[1] \notin Keys(b)} \cup b.map)

\* ------------------------------------------------------------------ Route
\* The keys path-to-regexp collects: the placeholder names, in template order.
RECURSIVE TemplateKeys(_)
TemplateKeys(t) ==
  IF t = <<>> THEN <<>>
  ELSE (IF IsParamToken(Head(t)) THEN <<ParamName(Head(t))>> ELSE <<>>)
         \o TemplateKeys(Tail(t))

\* pathToRegexp(path, keys, {sensitive, strict, end}) as the Route calls it.
pathToRegexp(path, strict, end) ==
  [tmpl |-> path, strict |-> strict, end |-> end]

\* callable: this.middleware is a function.  The constructor leaves it
\* `middleware[0]`, undefined, when the list is empty (lines 81-85).
Route(path, ms, middleware, name, o) ==
  LET asPrefix == (Len(ms) = 0) IN
  [ name       |-> name,
    asPrefix   |-> asPrefix,
    methods    |-> MapUpper(ms),
    params     |-> TemplateKeys(path),
    path       |-> path,
    regexp     |-> pathToRegexp(path, o.strict \/ ~asPrefix, ~asPrefix),
    fns        |-> [params |-> {}, middleware |-> middleware],
    middleware |-> middleware,
    callable   |-> middleware # <<>> ]

\* A regular expression the application writes, /^\/a$/, with the text of
\* its `source`; it has no capture group.
RxA == [source |-> <<"^", "\\", "/", "a", "$">>,
        re |-> pathToRegexp(<<"/", "a">>, TRUE, TRUE)]

\* The Route of a path that is a RegExp (lines 52-55): the path is the
\* source of the expression, no key is collected.
RegExpRoute(rx, ms, middleware, name, o) ==
  [Route(<<>>, ms, middleware, name, o) EXCEPT !.path = rx.source,
                                               !.regexp = rx.re]

\* Length of the longest run of non-slash characters of p starting at j.
RECURSIVE RunLen(_, _)
RunLen(p, j) ==
  IF j > Len(p) \/ p[j] = Slash THEN 0 ELSE 1 + RunLen(p, j + 1)

NoMatch == [ok |-> FALSE, pos |-> 0, caps |-> <<>>]

\* Match template tokens i.. of t against p from position j; a placeholder
\* captures one whole path segment.
RECURSIVE Consume(_, _, _, _, _)
Consume(t, i, p, j, caps) ==
  IF i > Len(t) THEN [ok |-> TRUE, pos |-> j, caps |-> caps]
  ELSE IF IsParamToken(t[i])
    THEN LET n == RunLen(p, j) IN
         IF n = 0 THEN NoMatch
         ELSE Consume(t, i + 1, p, j + n, Append(caps, SubSeq(p, j, j + n - 1)))
  ELSE IF j <= Len(p) /\ p[j] = t[i]
    THEN Consume(t, i + 1, p, j + 1, caps)
  ELSE NoMatch

\* path.match(regexp): the match ends at `pos - 1`.  Outside strict mode a
\* trailing slash is optional; an end-anchored expression must consume the
\* whole path, a prefix expression must stop at a slash or at the end.
RegexpExec(re, p) ==
  LET endsSlash == Len(re.tmpl) > 0 /\ re.tmpl[Len(re.tmpl)] = Slash
      core == IF ~re.strict /\ endsSlash THEN Front(re.tmpl) ELSE re.tmpl
      c == Consume(core, 1, p, 1, <<>>)
      TailOk(pos) ==
        IF re.end THEN pos = Len(p) + 1
        ELSE IF re.strict /\ endsSlash THEN TRUE
        ELSE pos = Len(p) + 1 \/ p[pos] = Slash
      withSlash == c.pos + 1
      canSlash == ~re.strict /\ c.pos = Len(p) /\ p[c.pos] = Slash
  IN IF ~c.ok THEN NoMatch
     ELSE IF canSlash /\ TailOk(withSlash) THEN [c EXCEPT !.pos = withSlash]
     ELSE IF TailOk(c.pos) THEN c
     ELSE NoMatch

\* decodeURIComponent on the escapes of this alphabet: %61 is "a", %62 is
\* "b", %2F is "/"; any other use of "%" is malformed and makes it throw.
HexChar(h) ==
  CASE h = <<"6", "1">> -> "a"
    [] h = <<"6", "2">> -> "b"
    [] h = <<"2", "F">> -> "/"
    [] OTHER -> ""

RECURSIVE decodeURIComponent(_)
decodeURIComponent(text) ==
  IF text = <<>> THEN [ok |-> TRUE, out |-> <<>>]
  ELSE IF Head(text) # "%"
    THEN LET rest == decodeURIComponent(Tail(text)) IN
         [ok |-> rest.ok, out |-> <<Head(text)>> \o rest.out]
  ELSE IF Len(text) < 3 \/ HexChar(SubSeq(text, 2, 3)) = ""
    THEN [ok |-> FALSE, out |-> <<>>]
  ELSE LET rest == decodeURIComponent(SubSeq(text, 4, Len(text))) IN
       [ok |-> rest.ok, out |-> <<HexChar(SubSeq(text, 2, 3))>> \o rest.out]

safeDecodeURIComponentOrNothing(text) == decodeURIComponent(text).out

safeDecodeURIComponent(text) ==
  IF decodeURIComponent(text).ok THEN decodeURIComponent(text).out ELSE text

\* `params[this.params[i].name] = ...` for each capture in turn (lines
\* 116-121): a key that the pattern names twice keeps its last capture.
Captured(keys, caps) ==
  Obj({ <<keys[k], safeDecodeURIComponent(caps[k])>> :
          k \in { k \in 1..Len(caps) :
                    \A j \in (k + 1)..Len(caps) : keys[j] # keys[k] } })

\* route.match(path): the captured params and the unconsumed suffix.
matchKeepsPath(route, path) ==
  LET m == RegexpExec(route.regexp, path) IN
  IF ~m.ok THEN [ok |-> FALSE, params |-> Undefined, path |-> <<>>]
  ELSE [ ok |-> TRUE,
         params |-> Captured(route.params, m.caps),
         path |-> path ]

\* Lines 131-134: what is left of the path, made to start with a slash.
SuffixAsLeft(rest) == rest

Suffix(rest) ==
  IF Len(rest) = 0 \/ rest[1] # Slash THEN <<Slash>> \o rest ELSE rest

match(route, path) ==
  LET m == RegexpExec(route.regexp, path)
      rest == SubSeq(path, m.pos, Len(path))
  IN IF ~m.ok THEN [ok |-> FALSE, params |-> Undefined, path |-> <<>>]
     ELSE [ ok |-> TRUE,
            params |-> Captured(route.params, m.caps),
            path |-> Suffix(rest) ]

\* -------------------------------------------------------------- route.url
\* The arguments of url: the values in positional form, or the <<key, value>>
\* pairs of an object in the order of its keys.
ListArgs(vs) == [object |-> FALSE, list |-> vs]
ObjectArgs(kvs) == [object |-> TRUE, list |-> kvs]

\* The position of the first placeholder of url, 0 if there is none.
FirstPlaceholder(url) ==
  IF \E k \in 1..Len(url) : IsParamToken(url[k])
    THEN CHOOSE k \in 1..Len(url) :
           IsParamToken(url[k]) /\ \A j \in 1..(k - 1) : ~IsParamToken(url[j])
    ELSE 0

\* The position of the first occurrence of the token tok, 0 if none.
FirstOccurrence(url, tok) ==
  IF \E k \in 1..Len(url) : url[k] = tok
    THEN CHOOSE k \in 1..Len(url) :
           url[k] = tok /\ \A j \in 1..(k - 1) : url[j] # tok
    ELSE 0

Splice(url, k, n, val) ==
  SubSeq(url, 1, k - 1) \o val \o SubSeq(url, k + n, Len(url))

\* url.replace(/:[^\/]+/, val) (line 172): the first placeholder, with what
\* follows it up to the next slash.
ReplaceFirstPlaceholder(url, val) ==
  IF FirstPlaceholder(url) = 0 THEN url
  ELSE Splice(url, FirstPlaceholder(url), RunLen(url, FirstPlaceholder(url)), val)

\* url.replace(":" + key, val) (line 177).
Placeholder(key) ==
  IF \E tok \in ParamTokens : ParamName(tok) = key
    THEN CHOOSE tok \in ParamTokens : ParamName(tok) = key
    ELSE ":" \o key

ReplaceKey(url, key, val) ==
  IF FirstOccurrence(url, Placeholder(key)) = 0 THEN url
  ELSE Splice(url, FirstOccurrence(url, Placeholder(key)), 1, val)

RECURSIVE Substituted(_, _, _)
Substituted(url, object, xs) ==
  IF xs = <<>> THEN url
  ELSE Substituted(IF object THEN ReplaceKey(url, Head(xs)[1], Head(xs)[2])
                   ELSE ReplaceFirstPlaceholder(url, Head(xs)),
                   object, Tail(xs))

\* encodeURIComponent on one token of this alphabet.
EncodeToken(tok) ==
  CASE tok = "%" -> <<"%", "2", "5">>
    [] tok = " " -> <<"%", "2", "0">>
    [] tok = "^" -> <<"%", "5", "E">>
    [] tok = "$" -> <<"%", "2", "4">>
    [] tok = "\\" -> <<"%", "5", "C">>
    [] tok = ":x" -> <<"%", "3", "A", "x">>
    [] tok = ":y" -> <<"%", "3", "A", "y">>
    [] OTHER -> <<tok>>

\* url.split("/").map(encodeURIComponent).join("/") (lines 181-183).
RECURSIVE EncodeComponents(_)
EncodeComponents(url) ==
  IF url = <<>> THEN <<>>
  ELSE (IF Head(url) = Slash THEN <<Slash>> ELSE EncodeToken(Head(url)))
         \o EncodeComponents(Tail(url))

\* route.url(params) (lines 160-184).
routeUrl(route, args) ==
  EncodeComponents(Substituted(route.path, args.object, args.list))

\* ------------------------------------------------------------------ state
\* routes:  router.routes, per router the Routes in registration order
\* methods: router.methods, per router the verbs registered so far
\* opts:    router.opts
\* ctx:     per request, the koa context (method, path, params, response)
\* disp:    per request, the closures created by the router middleware
\* stack:   per request, the suspended generator frames, innermost last
\* ctl:     per request, the pending transfer of control
\* log:     per request, what ran, each entry with the context it saw
\* routerParams: router.params, per router the parameter functions, as
\*          <<name, function>> pairs in the order of Object.keys
\* result:  what the last call of the registration surface returned or threw
VARIABLES routes, methods, opts, ctx, disp, stack, ctl, log, routerParams, result

tables == <<routes, methods, opts, routerParams, result>>
run == <<ctx, disp, stack, ctl, log>>
vars == <<routes, methods, opts, ctx, disp, stack, ctl, log, routerParams, result>>

\* ------------------------------------------------------- handlers, frames
\* The values an application passes as middleware: a generator function, a
\* nested application (here the one that serves router r), or something
\* that is neither, told by its `typeof`.
Fn == [k |-> "fn", r |-> 0, p |-> "", h |-> 0, to |-> <<>>]
App(r) == [k |-> "router", r |-> r, p |-> "", h |-> 0, to |-> <<>>]
Illegal(type) == [k |-> type, r |-> 0, p |-> "", h |-> 0, to |-> <<>>]

\* The generator route.param wraps around the parameter function h of
\* parameter p (lines 208-211).
ParamFn(p, h) == [k |-> "param", r |-> 0, p |-> p, h |-> h, to |-> <<>>]

\* The generator function *redirect() that router.redirect registers
\* (router.js lines 267-271): to is what it hands to this.redirect, code the
\* status code redirect was called with, 0 for none.
RedirectFn(to, code) ==
  [k |-> "redirect", r |-> 0, p |-> "", h |-> code, to |-> to]

IsFunction(fn) == fn.k \in {"fn", "param", "redirect"}
HasUse(fn) == fn.k = "router"

typeof(fn) ==
  IF IsFunction(fn) THEN "function"
  ELSE IF HasUse(fn) THEN "object" ELSE fn.k

\* What a call of the registration surface hands back to its caller.
NoResult == [kind |-> "none", type |-> "", value |-> <<>>]
Returned(type, value) == [kind |-> "returned", type |-> type, value |-> value]
Threw(type, value) == [kind |-> "threw", type |-> type, value |-> value]

\* The methods argument of the Route constructor: an array, or null.
Arr(ms) == [null |-> FALSE, list |-> ms]
Null == [null |-> TRUE, list |-> <<>>]

\* methods.toString() of an array of verbs.
toString(ms) == join(ms, ",")

\* The first element of the middleware list that the constructor rejects
\* (lines 64-79), 0 if there is none.
FirstIllegal(middleware) ==
  IF \E k \in 1..Len(middleware) :
       ~IsFunction(middleware[k]) /\ ~HasUse(middleware[k])
    THEN CHOOSE k \in 1..Len(middleware) :
           /\ ~IsFunction(middleware[k]) /\ ~HasUse(middleware[k])
           /\ \A j \in 1..(k - 1) :
                IsFunction(middleware[j]) \/ HasUse(middleware[j])
    ELSE 0

\* The grave accent of the messages, which a string of this notation cannot
\* hold.
Grave == "<grave>"

\* The message of the error of lines 73-76; label is name || path.
MiddlewareError(ms, label, fn) ==
  toString(ms) \o <<" ", Grave>> \o label \o
    <<Grave, ": ", Grave, "middleware", Grave,
      " must be a function or application, not ", Grave,
      typeof(fn), Grave>>

NoRoute == Route(<<>>, <<>>, <<>>, <<>>, [mergeParams |-> FALSE, strict |-> FALSE])

\* What the constructor does with its arguments before and after the
\* pattern is compiled: `methods.length` (line 36) is read first, the
\* middleware is validated last; text is what `name || path` prints, name
\* the characters of the name.
Construct(route, text, methodsArg, middleware, name) ==
  IF methodsArg.null
    THEN [ok |-> FALSE, route |-> NoRoute,
          threw |-> Threw("TypeError",
                          <<"Cannot read property 'length' of null">>)]
  ELSE IF FirstIllegal(middleware) # 0
    THEN [ok |-> FALSE, route |-> NoRoute,
          threw |-> Threw("Error",
                      MiddlewareError(methodsArg.list,
                                      IF name # <<>> THEN name ELSE text,
                                      middleware[FirstIllegal(middleware)]))]
  ELSE [ok |-> TRUE, route |-> route, threw |-> NoResult]

\* new Route(path, methods, middleware, name, opts): the Route, or what the
\* constructor throws.
NewRoute(path, methodsArg, middleware, name, o) ==
  Construct(Route(path, methodsArg.list, middleware, name, o), path,
            methodsArg, middleware, name)

NewRegExpRoute(rx, methodsArg, middleware, name, o) ==
  Construct(RegExpRoute(rx, methodsArg.list, middleware, name, o),
            <<"/">> \o rx.source \o <<"/">>, methodsArg, middleware, name)

\* The parameter functions of fnsParams for the keys of the pattern, in the
\* order of the keys (lines 214-219).
RECURSIVE ParamMiddlewareReversed(_, _)
ParamMiddlewareReversed(keys, fnsParams) ==
  IF keys = <<>> THEN <<>>
  ELSE ParamMiddlewareReversed(Tail(keys), fnsParams) \o
       (IF \E kv \in fnsParams : kv[1] = Head(keys)
          THEN <<ParamFn(Head(keys),
                         (CHOOSE kv \in fnsParams : kv[1] = Head(keys))[2])>>
          ELSE <<>>)

RECURSIVE ParamMiddleware(_, _)
ParamMiddleware(keys, fnsParams) ==
  IF keys = <<>> THEN <<>>
  ELSE (IF \E kv \in fnsParams : kv[1] = Head(keys)
          THEN <<ParamFn(Head(keys),
                         (CHOOSE kv \in fnsParams : kv[1] = Head(keys))[2])>>
          ELSE <<>>)
       \o ParamMiddleware(Tail(keys), fnsParams)

\* route.param(param, fn) (lines 206-223): this.middleware becomes what
\* compose returns, a function also when there is nothing to compose.
routeParamKeepsFirst(route, p, h) ==
  LET fp == IF \E kv \in route.fns.params : kv[1] = p
              THEN route.fns.params ELSE route.fns.params \cup {<<p, h>>}
  IN [route EXCEPT !.fns.params = fp,
                   !.middleware = ParamMiddleware(route.params, fp)
                                    \o route.fns.middleware,
                   !.callable = TRUE]

routeParam(route, p, h) ==
  LET fp == {kv \in route.fns.params : kv[1] # p} \cup {<<p, h>>}
  IN [route EXCEPT !.fns.params = fp,
                   !.middleware = ParamMiddleware(route.params, fp)
                                    \o route.fns.middleware,
                   !.callable = TRUE]

\* Object.keys(this.params).forEach(... route.param ...) (router.js lines
\* 299-303).
RECURSIVE WithParams(_, _)
WithParams(route, ps) ==
  IF ps = <<>> THEN route
  ELSE WithParams(routeParam(route, Head(ps)[1], Head(ps)[2]), Tail(ps))

FnItem(r, i, j, d) == [k |-> "fn", r |-> r, i |-> i, j |-> j, d |-> d]
RouterItem(r) == [k |-> "router", r |-> r, i |-> 0, j |-> 0, d |-> 0]
NextItem(d) == [k |-> "next", r |-> 0, i |-> 0, j |-> 0, d |-> d]

\* The function the application installs after the router middleware.
Downstream == FnItem(0, 0, 0, 0)

NoFrame == [t |-> "none", r |-> 0, i |-> 0, j |-> 0, d |-> 0, pc |-> "none",
            prevParams |-> Undefined, prevPathname |-> <<>>,
            cont |-> <<>>, ref |-> 0]

TopFrame(q) == IF stack[q] = <<>> THEN NoFrame ELSE stack[q][Len(stack[q])]

Pop(q) == Front(stack[q])

Event(e, it, beh, ref, c) ==
  [e |-> e, r |-> it.r, i |-> it.i, j |-> it.j, d |-> it.d,
   beh |-> beh, ref |-> ref, ctx |-> c]

Idle == [op |-> "idle", k |-> <<>>]
Call(k) == [op |-> "call", k |-> k]
Ret == [op |-> "ret", k |-> <<>>]
Throw == [op |-> "throw", k |-> <<>>]

NoCtx == [method |-> "", path |-> <<>>, params |-> Undefined, status |-> 0,
          explicit |-> FALSE, allowSet |-> FALSE, allow |-> <<>>,
          statusMessage |-> 0, location |-> <<>>]

\* ------------------------------------------------------------------- Init
\* `this.methods = ["OPTIONS"]` (line 41).
InitialMethodsNone == <<>>

InitialMethods == <<"OPTIONS">>

\* new Router(opts) (lines 28-48), and no request yet.
Constructed ==
  /\ routes = [r \in RouterIds |-> <<>>]
  /\ methods = [r \in RouterIds |-> InitialMethods]
  /\ routerParams = [r \in RouterIds |-> <<>>]
  /\ result = NoResult
  /\ ctx = [q \in Requests |-> NoCtx]
  /\ disp = [q \in Requests |-> <<>>]
  /\ stack = [q \in Requests |-> <<>>]
  /\ ctl = [q \in Requests |-> Idle]
  /\ log = [q \in Requests |-> <<>>]

Init ==
  /\ opts \in {[r \in RouterIds |-> [mergeParams |-> m, strict |-> FALSE]] :
                 m \in BOOLEAN}
  /\ Constructed

\* ----------------------------------------------------------- registration
\* The arguments the registrations of this development are drawn from:
\* path template, verbs as the caller writes them, middleware list.
Pa == <<"/", "a">>
Pb == <<"/", "b">>
Px == <<"/", ":x">>
Pab == <<"/", "a", "/", "b">>

TopInputs ==
  { <<Pa, <<"post">>, <<Fn>>>>,
    <<Px, <<"GET", "post">>, <<Fn, Fn>>>>,
    <<Pb, <<"get">>, <<Fn>>>>,
    <<Px, <<>>, <<Fn, App(Sub)>>>> }

SubInputs ==
  { <<Pb, <<"get">>, <<Fn>>>>,
    <<Px, <<>>, <<Fn>>>> }

RegisterInputs(r) == IF r = Top THEN TopInputs ELSE SubInputs

RouteLimit(r) == IF r = Top THEN MaxRoutes ELSE MaxSubRoutes

Serving == \E q \in Requests : ctl[q].op # "idle"

\* this.methods after the forEach of register (lines 308-313).
PushMethodsWithRepeats(known, ms) == known \o ms

RECURSIVE PushMethods(_, _)
PushMethods(known, ms) ==
  IF ms = <<>> THEN known
  ELSE PushMethods(IF IndexOf(known, Head(ms)) THEN known
                   ELSE Append(known, Head(ms)), Tail(ms))

\* this.routes.push(route) (line 305).
PushedInFront(rs, route) == <<route>> \o rs

Pushed(rs, route) == Append(rs, route)

\* `new Route` threw (line 297): the statements of register and of mount
\* after it do not run.
AfterThrowPushes(rs, made) == Append(rs, made.route)

AfterThrow(rs, made) == rs

\* router.register after `new Route` (lines 297-315): made is the Route or
\* what its constructor threw.  The application registers each of its
\* routes once.
Pushes(r, made, chained) ==
  /\ LET route == WithParams(made.route, routerParams[r])
     IN IF ~made.ok
          THEN /\ result' = made.threw
               /\ routes' = [routes EXCEPT ![r] = AfterThrow(@, made)]
               /\ UNCHANGED methods
          ELSE /\ Len(routes[r]) < RouteLimit(r)
               /\ ~IndexOf(routes[r], route)
               /\ routes' = [routes EXCEPT ![r] = Pushed(@, route)]
               /\ methods' = [methods EXCEPT ![r] = PushMethods(@, route.methods)]
               /\ result' = IF chained THEN Returned("Router", <<>>)
                            ELSE Returned("Route", route.path)
  /\ UNCHANGED <<opts, routerParams, run>>

\* chained: the caller is a wrapper that ends with `return this`, where
\* register itself returns the route.
Registered(r, made, chained) == ~Serving /\ Pushes(r, made, chained)

\* router.register(name, path, methods, ...middleware) (lines 285-316); a
\* name is a text as a path is, the empty text stands for a call without a
\* name.
register(r, name, path, ms, middleware) ==
  Registered(r, NewRoute(path, Arr(ms), middleware, name, opts[r]), FALSE)

\* router.register with a RegExp as path.
registerRegExp(r, name, rx, ms, middleware) ==
  Registered(r, NewRegExpRoute(rx, Arr(ms), middleware, name, opts[r]),
             FALSE)

\* A value that is no path, where register takes it for the path: the
\* string the illegal value of type string stands for, and a mark for a
\* value of another type.  No request path matches either.
AsPath(v) ==
  IF typeof(v) = "string" THEN <<"str">> ELSE <<"<", typeof(v), ">">>

\* What register gets when the wrapper has put the verbs behind the first
\* argument, as (path, methods, ...middleware), and behind the second, as
\* (name, path, methods, ...middleware).
AfterFirst(path, middleware) ==
  [name |-> <<>>, path |-> path, middleware |-> middleware]

AfterSecond(name, path, middleware) ==
  [name |-> name, path |-> path, middleware |-> middleware]

\* Lines 176-181: the verb goes behind the second argument when that is a
\* string (or a RegExp), whatever the caller meant by it, else behind the
\* first.  A call without a name has the path as its first argument.
verbArguments(name, path, middleware) ==
  IF name # <<>> THEN AfterSecond(name, path, middleware)
  ELSE IF middleware # <<>> /\ typeof(Head(middleware)) = "string"
    THEN AfterSecond(path, AsPath(Head(middleware)), Tail(middleware))
  ELSE AfterFirst(path, middleware)

\* Line 204: the verbs go behind the first argument only when the second
\* is a function; splice puts them at the end of a shorter list.
allArguments(name, path, middleware) ==
  IF name # <<>> THEN AfterSecond(name, path, middleware)
  ELSE IF middleware = <<>> \/ typeof(Head(middleware)) = "function"
    THEN AfterFirst(path, middleware)
  ELSE AfterSecond(path, AsPath(Head(middleware)), Tail(middleware))

\* router[verb](name, path, ...middleware) (lines 172-188); it returns the
\* router.
verb(r, method, name, path, middleware) ==
  LET a == verbArguments(name, path, middleware) IN
  Registered(r, NewRoute(a.path, Arr(<<method>>), a.middleware, a.name, opts[r]),
             TRUE)

\* router.all(name, path, ...middleware) (lines 201-208); it returns the
\* router.
all(r, name, path, middleware) ==
  LET a == allArguments(name, path, middleware) IN
  Registered(r, NewRoute(a.path, Arr(HttpMethods), a.middleware, a.name, opts[r]),
             TRUE)

\* router.mount(name, path, ...middleware), alias router.use (lines
\* 220-243): the Route is constructed with `null` as methods.
mount(r, name, path, middleware) ==
  /\ ~Serving
  /\ LET made == NewRoute(path, Null, middleware, name, opts[r])
         route == WithParams(made.route, routerParams[r])
     IN IF ~made.ok
          THEN /\ result' = made.threw
               /\ routes' = [routes EXCEPT ![r] = AfterThrow(@, made)]
          ELSE /\ Len(routes[r]) < RouteLimit(r)
               /\ routes' = [routes EXCEPT ![r] = Pushed(@, route)]
               /\ result' = Returned("Router", <<>>)
  /\ UNCHANGED <<methods, opts, routerParams, run>>

\* this.params[param] = fn: an existing key keeps its place in Object.keys.
SetParam(ps, p, h) ==
  IF \E k \in 1..Len(ps) : ps[k][1] = p
    THEN [k \in 1..Len(ps) |-> IF ps[k][1] = p THEN <<p, h>> ELSE ps[k]]
    ELSE Append(ps, <<p, h>>)

\* The routes of router.param's forEach (lines 369-372).
ParamOnRoutesNone(rs, p, h) == rs

ParamOnRoutes(rs, p, h) == [i \in 1..Len(rs) |-> routeParam(rs[i], p, h)]

\* router.param(param, fn) (lines 366-375).
param(r, p, h) ==
  /\ ~Serving
  /\ routerParams' = [routerParams EXCEPT ![r] = SetParam(@, p, h)]
  /\ routes' = [routes EXCEPT ![r] = ParamOnRoutes(@, p, h)]
  /\ result' = Returned("Router", <<>>)
  /\ UNCHANGED <<methods, opts, run>>

\* router.route(name) (lines 326-335): the position of the first route that
\* carries the name, 0 for null.  A route without a name carries null, which
\* is no string.
routerRoute(r, name) ==
  IF \E i \in 1..Len(routes[r]) : routes[r][i].name = name /\ name # <<>>
    THEN CHOOSE i \in 1..Len(routes[r]) :
           /\ routes[r][i].name = name
           /\ \A j \in 1..(i - 1) : routes[r][j].name # name
    ELSE 0

\* The path of the route is one of the marks of AsPath.
NotAString(path) == Len(path) = 3 /\ path[1] = "<" /\ path[3] = ">"

\* route.url.apply(route, args) (line 351): `url.split` (part_000 line
\* 181) needs the path to be a string.
UrlOf(route, args) ==
  IF NotAString(route.path) THEN Threw("TypeError", <<>>)
  ELSE Returned("string", routeUrl(route, args))

\* What router.url returns (lines 346-355); name is the characters of the
\* name.
UrlResultRaises(r, name, args) ==
  IF routerRoute(r, name) # 0
    THEN UrlOf(routes[r][routerRoute(r, name)], args)
    ELSE Threw("Error", <<"No route found for name: ">> \o name)

UrlResult(r, name, args) ==
  IF routerRoute(r, name) # 0
    THEN UrlOf(routes[r][routerRoute(r, name)], args)
    ELSE Returned("Error", <<"No route found for name: ">> \o name)

\* router.url(name, params).
url(r, name, args) ==
  /\ result' = UrlResult(r, name, args)
  /\ UNCHANGED <<routes, methods, opts, routerParams, run>>

\* Lines 258-265: a source or destination that does not begin with a slash
\* is looked up as a route name.
Looked(r, x) ==
  IF x # <<>> /\ Head(x) = Slash THEN Returned("string", x)
  ELSE UrlResult(r, x, ListArgs(<<>>))

\* The text of a destination: the string, or what an Error that url
\* returned reads as.
Destination(dst) ==
  IF dst.type = "string" THEN dst.value ELSE <<"Error: ">> \o dst.value

\* router.redirect(source, destination, code) (lines 255-272): a route for
\* all verbs whose one function answers with the redirection; an Error that
\* url returned for the source is taken for the path as it is.
redirect(r, source, destination, code) ==
  LET src == Looked(r, source)
      dst == Looked(r, destination)
      raised == IF src.kind = "threw" THEN src ELSE dst
      path == IF src.type = "string" THEN src.value
              ELSE AsPath(Illegal("object"))
  IN IF src.kind = "threw" \/ dst.kind = "threw"
       THEN /\ ~Serving
            /\ result' = raised
            /\ UNCHANGED <<routes, methods, opts, routerParams, run>>
       ELSE all(r, <<>>, path, <<RedirectFn(Destination(dst), code)>>)

\* route.param(param, fn) called on the i-th route of the router, which
\* register returned to the application; it returns the route.
routeParamOn(r, i, p, h) ==
  /\ ~Serving
  /\ i \in 1..Len(routes[r])
  /\ routes' = [routes EXCEPT ![r][i] = routeParam(@, p, h)]
  /\ result' = Returned("Route", routes[r][i].path)
  /\ UNCHANGED <<methods, opts, routerParams, run>>

\* ------------------------------------------------------------ router.match
\* The match records of rs[i..] against pathname, in registration order.
RECURSIVE MatchedFromReversed(_, _, _)
MatchedFromReversed(rs, i, pathname) ==
  IF i > Len(rs) THEN <<>>
  ELSE LET matched == match(rs[i], pathname) IN
       MatchedFromReversed(rs, i + 1, pathname) \o
       (IF matched.ok
          THEN <<[route |-> i, params |-> matched.params, path |-> matched.path]>>
          ELSE <<>>)

RECURSIVE MatchedFrom(_, _, _)
MatchedFrom(rs, i, pathname) ==
  IF i > Len(rs) THEN <<>>
  ELSE LET matched == match(rs[i], pathname) IN
       (IF matched.ok
          THEN <<[route |-> i, params |-> matched.params, path |-> matched.path]>>
          ELSE <<>>) \o MatchedFrom(rs, i + 1, pathname)

\* router.match(pathname); the empty sequence stands for null.
routerMatch(r, pathname) == MatchedFrom(routes[r], 1, pathname)

\* ---------------------------------------------------------------- dispatch
RequestMethods == {"GET", "OPTIONS", "HEAD", "DELETE"}
RequestPaths == {<<"/", "a">>, <<"/", "a", "/", "b">>}
RequestParams == {Obj({<<"x", <<"q">>>>})}

NoBeh == [write |-> FALSE, act |-> ""]
EnterChoices ==
  { [write |-> FALSE, act |-> "pass"], [write |-> FALSE, act |-> "stop"],
    [write |-> FALSE, act |-> "throw"], [write |-> TRUE, act |-> "stop"] }
ResumeChoices ==
  { [write |-> FALSE, act |-> "return"], [write |-> FALSE, act |-> "throw"] }

Ids(r, i, d) == [r |-> r, i |-> i, j |-> 0, d |-> d]

\* The middleware the application has installed: those of the routers, in
\* this order, and then one more function.
RECURSIVE Installed(_)
Installed(routers) ==
  IF routers = <<>> THEN <<Downstream>>
  ELSE <<RouterItem(Head(routers))>> \o Installed(Tail(routers))

\* koa starts a request with status 404 and nothing written.
StartRequestThrough(q, installed, method, path, params) ==
  /\ ctl[q].op = "idle"
  /\ ctx' = [ctx EXCEPT ![q] =
       [method |-> method, path |-> path, params |-> params, status |-> 404,
        explicit |-> FALSE, allowSet |-> FALSE, allow |-> <<>>,
        statusMessage |-> 0, location |-> <<>>]]
  /\ ctl' = [ctl EXCEPT ![q] = Call(Installed(installed))]
  /\ UNCHANGED <<tables, disp, stack, log>>

\* The application has installed the middleware of Top and then one more
\* function.
StartRequest(q, method, path, params) ==
  StartRequestThrough(q, <<Top>>, method, path, params)

\* The Route after route.match(pathname) (part_000 lines 107-143, called at
\* router.js line 395): the captures go to a new object, the Route is only
\* read.
MatchedRouteTakesPath(route, matched) ==
  IF matched.ok THEN [route EXCEPT !.path = matched.path] ELSE route

MatchedRoute(route, matched) == route

\* `if (!routes)` (line 80).
EarlyReturnNever(cands) == FALSE

EarlyReturn(cands) == cands = <<>>

\* The generator returned by router.middleware(), up to its first yield*
\* (lines 73-89 and 163, or 81).
RouterMiddleware(q) ==
  /\ ctl[q].op = "call" /\ ctl[q].k # <<>> /\ Head(ctl[q].k).k = "router"
  /\ LET r == Head(ctl[q].k).r
         done == Tail(ctl[q].k)
         pathname == ctx[q].path
         cands == routerMatch(r, pathname)
         d == Len(disp[q]) + 1
         cl == [r |-> r, pathname |-> pathname, params |-> ctx[q].params,
                method |-> ctx[q].method, routes |-> cands, index |-> -1,
                called |-> FALSE, methodsAvailable |-> <<>>, done |-> done]
         fr == [NoFrame EXCEPT !.t = "mw", !.r = r, !.d = d,
                  !.pc = IF EarlyReturn(cands) THEN "done" ELSE "walk"]
         entered == Event("dispatch", Ids(r, 0, d), NoBeh, 0, ctx[q])
     IN /\ disp' = [disp EXCEPT ![q] = Append(@, cl)]
        /\ stack' = [stack EXCEPT ![q] = Append(@, fr)]
        /\ IF EarlyReturn(cands)
             THEN /\ ctl' = [ctl EXCEPT ![q] = Call(done)]
                  /\ log' = [log EXCEPT ![q] = @ \o
                       <<entered, Event("done", Ids(r, 0, d), NoBeh, 0, ctx[q])>>]
             ELSE /\ ctl' = [ctl EXCEPT ![q] = Call(<<NextItem(d)>>)]
                  /\ log' = [log EXCEPT ![q] = Append(@, entered)]
        /\ routes' = [routes EXCEPT ![r] =
             [i \in 1..Len(@) |-> MatchedRoute(@[i], match(@[i], pathname))]]
  /\ UNCHANGED <<methods, opts, routerParams, result, ctx>>

\* Lines 98-99.
ExhaustedKeepsScope(c, cl) == c

Exhausted(c, cl) == [c EXCEPT !.path = cl.pathname, !.params = cl.params]

\* Line 127.
shouldCallMiddlewareByMethod(route, method) == IndexOf(route.methods, method)

shouldCallMiddleware(route, method) ==
  IndexOf(route.methods, method) \/ route.asPrefix

\* Lines 139-140.
ApplicableWithoutHead(route, method) == shouldCallMiddleware(route, method)

Applicable(route, method) ==
  shouldCallMiddleware(route, method)
    \/ (method = "HEAD" /\ IndexOf(route.methods, "GET"))

\* Lines 131-135: the keys of methodsAvailable, in insertion order.
RecordedForAnyMethod(avail, route, method) ==
  IF ~shouldCallMiddleware(route, method)
    THEN PushMethods(avail, route.methods) ELSE avail

Recorded(avail, route, method) ==
  IF ~shouldCallMiddleware(route, method) /\ method = "OPTIONS"
    THEN PushMethods(avail, route.methods) ELSE avail

\* Lines 145-148.
Rescoped(c, cl, cand, o) ==
  [c EXCEPT !.path = cand.path,
            !.params = IF o.mergeParams THEN mergeParams(cl.params, cand.params)
                       ELSE cand.params]

\* compose(middleware) called with next(): the functions of the route, then
\* the continuation of the walk.
ComposedWithoutNext(r, i, d) ==
  [j \in 1..Len(routes[r][i].middleware) |->
     IF IsFunction(routes[r][i].middleware[j]) THEN FnItem(r, i, j, d)
     ELSE RouterItem(routes[r][i].middleware[j].r)]

Composed(r, i, d) ==
  [j \in 1..Len(routes[r][i].middleware) |->
     IF IsFunction(routes[r][i].middleware[j]) THEN FnItem(r, i, j, d)
     ELSE RouterItem(routes[r][i].middleware[j].r)] \o <<NextItem(d)>>

\* `route.middleware.call(context, next())` (line 150).  The Route of an
\* empty middleware list has `middleware[0]`, which is undefined, for its
\* middleware (part_000 lines 81-85) until route.param composes it: the
\* call of undefined throws a TypeError, that of compose([]) goes on to
\* next().
NoMiddleware(r, i) == ~routes[r][i].callable

Invoked(r, i, d) ==
  IF NoMiddleware(r, i) THEN Throw ELSE Call(Composed(r, i, d))

\* `index` (line 88), a variable of the call of the router middleware.
CursorOfAnyRequest(q, d) ==
  LET seen == { disp[p][d].index : p \in { p \in Requests : Len(disp[p]) >= d } }
  IN CHOOSE x \in seen : \A y \in seen : y <= x

Cursor(q, d) == disp[q][d].index

\* `routes` (line 79), a variable of the call of the router middleware:
\* the array router.match returned when the dispatch started.
CandidatesLive(q, d) == routerMatch(disp[q][d].r, disp[q][d].pathname)

Candidates(q, d) == disp[q][d].routes

\* One run of the generator next() up to its yield* (lines 91-101, 125-150,
\* 159).
Next(q) ==
  /\ ctl[q].op = "call" /\ ctl[q].k # <<>> /\ Head(ctl[q].k).k = "next"
  /\ LET d == Head(ctl[q].k).d
         cl == disp[q][d]
         index == Cursor(q, d) + 1
         fr == [NoFrame EXCEPT !.t = "next", !.r = cl.r, !.d = d,
                  !.prevParams = ctx[q].params, !.prevPathname = ctx[q].path]
     IN IF index >= Len(Candidates(q, d))
          THEN /\ ctx' = [ctx EXCEPT ![q] = Exhausted(@, cl)]
               /\ disp' = [disp EXCEPT ![q][d].index = index]
               /\ stack' = [stack EXCEPT ![q] = Append(@, [fr EXCEPT !.pc = "done"])]
               /\ ctl' = [ctl EXCEPT ![q] = Call(cl.done)]
               /\ log' = [log EXCEPT ![q] = Append(@,
                    Event("done", Ids(cl.r, 0, d), NoBeh, 0, Exhausted(ctx[q], cl)))]
          ELSE LET cand == Candidates(q, d)[index + 1]
                   route == routes[cl.r][cand.route]
                   avail == Recorded(cl.methodsAvailable, route, cl.method)
               IN IF Applicable(route, cl.method)
                    THEN /\ ctx' = [ctx EXCEPT ![q] = Rescoped(@, cl, cand, opts[cl.r])]
                         /\ disp' = [disp EXCEPT ![q][d] =
                              [cl EXCEPT !.index = index, !.called = TRUE,
                                         !.methodsAvailable = avail]]
                         /\ stack' = [stack EXCEPT ![q] =
                              IF NoMiddleware(cl.r, cand.route) THEN @
                              ELSE Append(@, [fr EXCEPT !.pc = "mw", !.i = cand.route])]
                         /\ ctl' = [ctl EXCEPT ![q] = Invoked(cl.r, cand.route, d)]
                         /\ log' = [log EXCEPT ![q] = Append(@,
                              Event(IF NoMiddleware(cl.r, cand.route)
                                      THEN "fault" ELSE "invoke",
                                    Ids(cl.r, cand.route, d), NoBeh, 0,
                                    Rescoped(ctx[q], cl, cand, opts[cl.r])))]
                    ELSE /\ disp' = [disp EXCEPT ![q][d] =
                              [cl EXCEPT !.index = index, !.methodsAvailable = avail]]
                         /\ stack' = [stack EXCEPT ![q] =
                              Append(@, [fr EXCEPT !.pc = "rec", !.i = cand.route])]
                         /\ ctl' = [ctl EXCEPT ![q] = Call(<<NextItem(d)>>)]
                         /\ log' = [log EXCEPT ![q] = Append(@,
                              Event("skip", Ids(cl.r, cand.route, d), NoBeh, 0, ctx[q]))]
                         /\ UNCHANGED ctx
  /\ UNCHANGED tables

\* Lines 109 and 112-114: the status code the fallback writes.
StatusForNever501(method, known) ==
  IF method = "OPTIONS" THEN 204 ELSE 405

StatusForInverted(method, known) ==
  IF IndexOf(known, method) THEN 501
  ELSE IF method = "OPTIONS" THEN 204 ELSE 405

StatusFor(method, known) ==
  IF ~IndexOf(known, method) THEN 501
  ELSE IF method = "OPTIONS" THEN 204 ELSE 405

\* `!called` (line 104).
UnhandledAlways(cl) == TRUE

Unhandled(cl) == ~cl.called

\* `!context.response._explicitStatus` (line 104).
NoExplicitStatusAlways(c) == TRUE

NoExplicitStatus(c) == ~c.explicit

\* Lines 104-117.
Synthesizes(c, cl) == Unhandled(cl) /\ NoExplicitStatus(c)

SynthesizedExplicitly(c, cl, known) ==
  IF Synthesizes(c, cl)
    THEN [c EXCEPT !.status = StatusFor(c.method, known),
                   !.explicit = TRUE,
                   !.allowSet = TRUE,
                   !.allow = join(cl.methodsAvailable, ", "),
                   !.statusMessage = StatusFor(c.method, known)]
    ELSE c

Synthesized(c, cl, known) ==
  IF Synthesizes(c, cl)
    THEN [c EXCEPT !.status = StatusFor(c.method, known),
                   !.allowSet = TRUE,
                   !.allow = join(cl.methodsAvailable, ", "),
                   !.statusMessage = StatusFor(c.method, known)]
    ELSE c

\* Lines 120-121 and 153-154.
RestoredParamsOnly(c, fr) == [c EXCEPT !.params = fr.prevParams]

Restored(c, fr) ==
  [c EXCEPT !.params = fr.prevParams, !.path = fr.prevPathname]

\* next() resumed after `yield *done` (lines 103-122).
NextAfterDone(q) ==
  /\ ctl[q].op = "ret" /\ TopFrame(q).t = "next" /\ TopFrame(q).pc = "done"
  /\ LET fr == TopFrame(q)
         cl == disp[q][fr.d]
         synth == Synthesized(ctx[q], cl, methods[cl.r])
     IN /\ ctx' = [ctx EXCEPT ![q] = Restored(synth, fr)]
        /\ log' = [log EXCEPT ![q] = @ \o
             (IF Synthesizes(ctx[q], cl)
                THEN <<Event("synth", Ids(cl.r, 0, fr.d), NoBeh, 0, synth)>>
                ELSE <<>>)
             \o <<Event("unwound", Ids(cl.r, 0, fr.d), NoBeh, 0, Restored(synth, fr))>>]
  /\ stack' = [stack EXCEPT ![q] = Pop(q)]
  /\ ctl' = [ctl EXCEPT ![q] = Ret]
  /\ UNCHANGED <<tables, disp>>

\* `return` of line 155: after the middleware returned, the walk is over
\* for this generator.
AfterMiddlewareFallsThrough(fr) == Call(<<NextItem(fr.d)>>)

AfterMiddleware(fr) == Ret

\* next() resumed after `yield *route.middleware.call(...)` (lines 152-155).
NextAfterMiddleware(q) ==
  /\ ctl[q].op = "ret" /\ TopFrame(q).t = "next" /\ TopFrame(q).pc = "mw"
  /\ LET fr == TopFrame(q) IN
       /\ ctx' = [ctx EXCEPT ![q] = Restored(@, fr)]
       /\ log' = [log EXCEPT ![q] = Append(@,
            Event("back", Ids(fr.r, fr.i, fr.d), NoBeh, 0, Restored(ctx[q], fr)))]
       /\ ctl' = [ctl EXCEPT ![q] = AfterMiddleware(fr)]
  /\ stack' = [stack EXCEPT ![q] = Pop(q)]
  /\ UNCHANGED <<tables, disp>>

\* next() resumed after the `yield *next()` of line 159.
NextAfterSkip(q) ==
  /\ ctl[q].op = "ret" /\ TopFrame(q).t = "next" /\ TopFrame(q).pc = "rec"
  /\ stack' = [stack EXCEPT ![q] = Pop(q)]
  /\ UNCHANGED <<tables, ctx, disp, ctl, log>>

\* The router middleware resumed after `yield *next()` (line 163) or after
\* `yield *done` (line 81): it returns.
MiddlewareReturn(q) ==
  /\ ctl[q].op = "ret" /\ TopFrame(q).t = "mw"
  /\ LET fr == TopFrame(q) IN
       log' = [log EXCEPT ![q] = Append(@,
         Event("exit", Ids(fr.r, 0, fr.d), NoBeh, 0, ctx[q]))]
  /\ stack' = [stack EXCEPT ![q] = Pop(q)]
  /\ UNCHANGED <<tables, ctx, disp, ctl>>

\* A generator of the router has no try: an error thrown into it at its
\* yield* leaves it at once, the statements after the yield* do not run.
RouterFrameRethrowsUnlessDone(fr) == ~(fr.t = "next" /\ fr.pc = "done")

RouterFrameRethrows(fr) == TRUE

RouterUnwind(q) ==
  /\ ctl[q].op = "throw" /\ TopFrame(q).t \in {"next", "mw"}
  /\ LET fr == TopFrame(q) IN
       /\ ctl' = [ctl EXCEPT ![q] = IF RouterFrameRethrows(fr) THEN Throw ELSE Ret]
       /\ log' = [log EXCEPT ![q] = Append(@,
            Event("abort", [r |-> fr.r, i |-> fr.i, j |-> 0, d |-> fr.d],
                  [write |-> FALSE, act |-> fr.pc], 0, ctx[q]))]
  /\ stack' = [stack EXCEPT ![q] = Pop(q)]
  /\ UNCHANGED <<tables, ctx, disp>>

\* ---------------------------------------------------------------- handlers
\* What a handler writes when it answers: `this.status = 200`.
Written(c) == [c EXCEPT !.status = 200, !.explicit = TRUE]

\* The function an item of a chain stands for; the downstream function is
\* one of the application.
FunctionOf(it) ==
  IF it.r = 0 THEN Fn ELSE routes[it.r][it.i].middleware[it.j]

\* What the function of redirect does (router.js lines 269-270):
\* `this.redirect(destination); this.status = code || 301`.
Redirected(c, fn) ==
  [c EXCEPT !.location = fn.to,
            !.status = IF fn.h # 0 THEN fn.h ELSE 301,
            !.explicit = TRUE]

\* The one behaviour of the function of redirect: it writes and returns.
Redirecting == [write |-> TRUE, act |-> "stop"]

\* A function of a route, or the downstream function, is started: it may
\* write a response, then yields to its continuation, returns or throws.
\* The function of redirect writes its redirection and returns.
HandlerEnter(q, beh) ==
  /\ ctl[q].op = "call" /\ ctl[q].k # <<>> /\ Head(ctl[q].k).k = "fn"
  /\ FunctionOf(Head(ctl[q].k)).k = "redirect" => beh = Redirecting
  /\ LET it == Head(ctl[q].k)
         cont == Tail(ctl[q].k)
         c == IF FunctionOf(it).k = "redirect"
                THEN Redirected(ctx[q], FunctionOf(it))
              ELSE IF beh.write THEN Written(ctx[q]) ELSE ctx[q]
         fr == [NoFrame EXCEPT !.t = "fn", !.r = it.r, !.i = it.i, !.j = it.j,
                  !.d = it.d, !.pc = "wait", !.cont = cont,
                  !.ref = Len(log[q]) + 1]
     IN /\ ctx' = [ctx EXCEPT ![q] = c]
        /\ log' = [log EXCEPT ![q] = Append(@, Event("enter", it, beh, 0, c))]
        /\ CASE beh.act = "pass" ->
                  /\ stack' = [stack EXCEPT ![q] = Append(@, fr)]
                  /\ ctl' = [ctl EXCEPT ![q] = Call(cont)]
             [] beh.act = "stop" ->
                  /\ ctl' = [ctl EXCEPT ![q] = Ret]
                  /\ UNCHANGED stack
             [] beh.act = "throw" ->
                  /\ ctl' = [ctl EXCEPT ![q] = Throw]
                  /\ UNCHANGED stack
  /\ UNCHANGED <<tables, disp>>

\* The continuation of a handler returned: the handler runs its remaining
\* statements and returns, or throws.
HandlerResume(q, beh) ==
  /\ ctl[q].op = "ret" /\ TopFrame(q).t = "fn"
  /\ LET fr == TopFrame(q) IN
       log' = [log EXCEPT ![q] = Append(@, Event("resume", fr, beh, fr.ref, ctx[q]))]
  /\ stack' = [stack EXCEPT ![q] = Pop(q)]
  /\ ctl' = [ctl EXCEPT ![q] = IF beh.act = "throw" THEN Throw ELSE Ret]
  /\ UNCHANGED <<tables, ctx, disp>>

\* The continuation of a handler threw: the handler catches the error and
\* returns, or lets it pass.
HandlerCatch(q, catches) ==
  /\ ctl[q].op = "throw" /\ TopFrame(q).t = "fn"
  /\ LET fr == TopFrame(q) IN
       log' = [log EXCEPT ![q] = Append(@,
         Event(IF catches THEN "caught" ELSE "passed", fr, NoBeh, fr.ref, ctx[q]))]
  /\ stack' = [stack EXCEPT ![q] = Pop(q)]
  /\ ctl' = [ctl EXCEPT ![q] = IF catches THEN Ret ELSE Throw]
  /\ UNCHANGED <<tables, ctx, disp>>

\* The continuation of the last function of the application is koa-compose's
\* empty generator.
Noop(q) ==
  /\ ctl[q].op = "call" /\ ctl[q].k = <<>>
  /\ ctl' = [ctl EXCEPT ![q] = Ret]
  /\ UNCHANGED <<tables, ctx, disp, stack, log>>

\* The router middleware returned to its invoker.
Finish(q) ==
  /\ ctl[q].op = "ret" /\ stack[q] = <<>>
  /\ ctl' = [ctl EXCEPT ![q] = [op |-> "finished", k |-> <<>>]]
  /\ UNCHANGED <<tables, ctx, disp, stack, log>>

\* An error left the router middleware.
Fail(q) ==
  /\ ctl[q].op = "throw" /\ stack[q] = <<>>
  /\ ctl' = [ctl EXCEPT ![q] = [op |-> "failed", k |-> <<>>]]
  /\ UNCHANGED <<tables, ctx, disp, stack, log>>

\* ------------------------------------------------------------ specification
\* One step of a request that is being served.
Serve(q) ==
  \/ RouterMiddleware(q)
  \/ Next(q)
  \/ NextAfterDone(q)
  \/ NextAfterMiddleware(q)
  \/ NextAfterSkip(q)
  \/ MiddlewareReturn(q)
  \/ RouterUnwind(q)
  \/ \E beh \in EnterChoices : HandlerEnter(q, beh)
  \/ \E beh \in ResumeChoices : HandlerResume(q, beh)
  \/ \E catches \in BOOLEAN : HandlerCatch(q, catches)
  \/ Noop(q)
  \/ Finish(q)
  \/ Fail(q)

Step(q) ==
  \/ \E m \in RequestMethods, p \in RequestPaths, ps \in RequestParams :
       StartRequest(q, m, p, ps)
  \/ Serve(q)

Next1 ==
  \/ \E r \in RouterIds : \E a \in RegisterInputs(r) :
       register(r, <<>>, a[1], a[2], a[3])
  \/ Step(First)

Spec == Init /\ [][Next1]_vars

\* The application of the examples of the specification: `GET /user` and
\* `POST /user`, and a sub-router under the prefix route `/first/:id`; the
\* user path is "/a", the path "/first/second/third" is "/a/bb/b".
Pax == <<"/", "a", "/", ":x">>
Pabbb == <<"/", "a", "/", "b", "b", "/", "b">>

ExampleTopInputs ==
  { <<Pa, <<"get">>, <<Fn>>>>,
    <<Pa, <<"post">>, <<Fn>>>>,
    <<Pax, <<>>, <<Fn, App(Sub)>>>> }

ExampleSubInputs == { <<Pb, <<"get">>, <<Fn>>>> }

ExampleInputs(r) == IF r = Top THEN ExampleTopInputs ELSE ExampleSubInputs

ExampleMethods == {"GET", "DELETE"}
ExamplePaths == {Pa, Pabbb}

ExampleNext ==
  \/ \E r \in RouterIds : \E a \in ExampleInputs(r) :
       register(r, <<>>, a[1], a[2], a[3])
  \/ LET q == First IN
       \/ \E m \in ExampleMethods, p \in ExamplePaths, ps \in RequestParams :
            StartRequest(q, m, p, ps)
       \/ Serve(q)

ExampleSpec == Init /\ [][ExampleNext]_vars

\* The registration surface of one router, as an application drives it
\* before it serves: register with and without a name, with legal and
\* illegal middleware, with a RegExp, the verb wrappers, all, mount, param,
\* url and redirect.
SetupRegisterInputs ==
  { <<<<>>, Pa, <<"get">>, <<Fn>>>>,
    <<<<"user">>, Pax, <<"get", "GET", "post">>, <<Fn>>>>,
    <<<<>>, Px, <<>>, <<Fn>>>>,
    <<<<>>, Pa, <<"get">>, <<Illegal("undefined")>>>>,
    <<<<"foo">>, Pa, <<"post", "get">>, <<Fn, Illegal("number")>>>> }

SetupVerbs == {"get"}

SetupVerbInputs ==
  { <<<<>>, Pb, <<Fn>>>>,
    <<<<>>, Pb, <<Illegal("string")>>>>,
    <<<<"foo">>, Pb, <<Illegal("undefined")>>>> }

\* The calls of all: undefined where the function is expected, without
\* and with a name before it; redirect calls all with a function.
SetupAllInputs ==
  { <<<<>>, Pb, <<Illegal("undefined")>>>>,
    <<<<"foo">>, Pb, <<Illegal("undefined")>>>> }

SetupMountInputs ==
  { <<<<>>, Pa, <<Fn>>>>,
    <<<<>>, Pb, <<Illegal("undefined")>>>> }

SetupParams == {<<"x", 1>>}

\* The names url is asked for: of a route, of the RegExp route, of no route,
\* and the path that a verb wrapper takes for the name of its route.
SetupNames == {<<"user">>, <<"rx">>, <<"nope">>, Pb}

\* Sources, destinations and codes of redirect: paths, the name of a route
\* and a name no route has, no code and 302.
SetupRedirects ==
  { <<<<"user">>, Pb, 0>>, <<Pb, <<"nope">>, 302>> }

SetupArgs ==
  { ListArgs(<<>>), ListArgs(<<<<"q">>>>),
    ObjectArgs(<<<<"x", <<"a", "%">>>>>>) }

SetupNext ==
  \/ \E a \in SetupRegisterInputs : register(Top, a[1], a[2], a[3], a[4])
  \/ registerRegExp(Top, <<"rx">>, RxA, <<"get">>, <<Fn>>)
  \/ \E m \in SetupVerbs, a \in SetupVerbInputs :
       verb(Top, m, a[1], a[2], a[3])
  \/ \E a \in SetupAllInputs : all(Top, a[1], a[2], a[3])
  \/ \E a \in SetupMountInputs : mount(Top, a[1], a[2], a[3])
  \/ \E a \in SetupParams : param(Top, a[1], a[2])
  \/ \E name \in SetupNames, args \in SetupArgs : url(Top, name, args)
  \/ \E a \in SetupRedirects : redirect(Top, a[1], a[2], a[3])

SetupSpec == Init /\ [][SetupNext]_vars

\* Routers with and without the strict option, routes with and without a
\* trailing slash and with a placeholder, and requests for paths with and
\* without a trailing slash and with escapes, well-formed and not.
PaSlash == <<"/", "a", "/">>

MatchInit ==
  /\ opts \in {[r \in RouterIds |-> [mergeParams |-> FALSE, strict |-> st]] :
                 st \in BOOLEAN}
  /\ Constructed

MatchInputs ==
  { <<PaSlash, <<"get">>, <<Fn>>>>,
    <<Pa, <<"get">>, <<Fn>>>>,
    <<PaSlash, <<>>, <<Fn>>>>,
    <<Px, <<"get">>, <<Fn>>>>,
    <<Px, <<"post">>, <<Fn>>>> }

MatchPaths ==
  { Pa, PaSlash, Pab, <<"/", "%", "6", "1">>, <<"/", "b", "%">> }

MatchNext ==
  \/ \E a \in MatchInputs : register(Top, <<>>, a[1], a[2], a[3])
  \/ LET q == First IN
       \/ \E p \in MatchPaths, ps \in RequestParams :
            StartRequest(q, "GET", p, ps)
       \/ Serve(q)

MatchSpec == MatchInit /\ [][MatchNext]_vars

\* Parameter functions and routes with two placeholders, registered in any
\* order through the verb wrappers, all, register and mount, and then a
\* request that the routes match, for a verb that not all of them bind.
Pxy == <<"/", ":x", "/", ":y">>
Pyx == <<"/", ":y", "/", ":x">>

ParamInit ==
  /\ opts = [r \in RouterIds |-> [mergeParams |-> FALSE, strict |-> FALSE]]
  /\ Constructed

ParamHooks == {<<"x", 1>>, <<"x", 2>>, <<"y", 1>>}

ParamNext ==
  \/ \E a \in ParamHooks : param(Top, a[1], a[2])
  \/ verb(Top, "get", <<>>, Pxy, <<Fn>>)
  \/ all(Top, <<>>, Pyx, <<Fn>>)
  \/ register(Top, <<>>, Pxy, <<"post">>, <<Fn>>)
  \/ mount(Top, <<>>, Px, <<Fn>>)
  \/ LET q == First IN
       \/ \E ps \in RequestParams : StartRequest(q, "GET", Pab, ps)
       \/ Serve(q)

ParamSpec == ParamInit /\ [][ParamNext]_vars

\* Two requests served at the same time by one router whose routes are all
\* registered: their steps interleave in every way.
ConcurrentInputs ==
  { <<Pa, <<"get">>, <<Fn>>>>,
    <<Px, <<"post">>, <<Fn>>>> }

ConcurrentMethods == {"GET", "OPTIONS"}

ConcurrentNext ==
  \/ \E a \in ConcurrentInputs : register(Top, <<>>, a[1], a[2], a[3])
  \/ \E q \in Requests :
       \/ \E m \in ConcurrentMethods, ps \in RequestParams :
            StartRequest(q, m, Pa, ps)
       \/ Serve(q)

ConcurrentSpec == ParamInit /\ [][ConcurrentNext]_vars

\* Parameter functions set on single routes, for parameters of the pattern
\* and for one that no pattern has, any number of times.
HookInputs ==
  { <<Pxy, <<"get">>, <<Fn, Fn>>>>,
    <<Pyx, <<"post">>, <<Fn>>>> }

RouteHooks == {<<"x", 1>>, <<"x", 2>>, <<"y", 1>>, <<"z", 1>>}

HookNext ==
  \/ \E a \in HookInputs : register(Top, <<>>, a[1], a[2], a[3])
  \/ \E i \in 1..MaxRoutes, a \in RouteHooks : routeParamOn(Top, i, a[1], a[2])

HookSpec == ParamInit /\ [][HookNext]_vars


\* A generator object that has run to its end is finished: a second
\* `yield *next` on it starts nothing and returns at once.
ContinuationRestarts(fr) == Call(fr.cont)

ContinuationOnce(fr) == Ret

\* The continuation of a handler returned, and the handler yields to the
\* same continuation a second time.
HandlerAgain(q) ==
  /\ ctl[q].op = "ret" /\ TopFrame(q).t = "fn" /\ TopFrame(q).pc = "wait"
  /\ LET fr == TopFrame(q) IN
       /\ log' = [log EXCEPT ![q] = Append(@,
            Event("again", fr, NoBeh, fr.ref, ctx[q]))]
       /\ stack' = [stack EXCEPT ![q][Len(stack[q])].pc = "again"]
       /\ ctl' = [ctl EXCEPT ![q] = ContinuationOnce(fr)]
  /\ UNCHANGED <<tables, ctx, disp>>

\* Handlers that may yield to their continuation twice: routes of which one
\* does not take the request's method, and `GET /a`.
OnceInputs ==
  { <<Pa, <<"post">>, <<Fn>>>>,
    <<Px, <<"get">>, <<Fn, Fn>>>>,
    <<Pa, <<"get">>, <<Fn>>>> }

OnceNext ==
  \/ \E a \in OnceInputs : register(Top, <<>>, a[1], a[2], a[3])
  \/ LET q == First IN
       \/ \E ps \in RequestParams : StartRequest(q, "GET", Pa, ps)
       \/ Serve(q)
       \/ HandlerAgain(q)

OnceSpec == ParamInit /\ [][OnceNext]_vars


\* co drives the generators of a request until they are done: a request
\* that can take a step takes one.
FairSpec == OnceSpec /\ WF_vars(Serve(First))


\* A handler of request q has yielded and has not been resumed yet.
Suspended(q) ==
  \E k \in 1..Len(stack[q]) : stack[q][k].t = "fn"

\* router.register called while a request is suspended inside a handler.
registerLate(r, name, path, ms, middleware) ==
  /\ \E q \in Requests : Suspended(q)
  /\ Pushes(r, NewRoute(path, Arr(ms), middleware, name, opts[r]), FALSE)

\* Routes that all match `/a`, one of them not for GET, registered before
\* and during the request `GET /a`.
LateInputs ==
  { <<Pa, <<"get">>, <<Fn>>>>,
    <<Pa, <<"post">>, <<Fn>>>>,
    <<Px, <<"get">>, <<Fn>>>> }

LateNext ==
  \/ \E a \in LateInputs : register(Top, <<>>, a[1], a[2], a[3])
  \/ \E a \in LateInputs : registerLate(Top, <<>>, a[1], a[2], a[3])
  \/ LET q == First IN
       \/ \E ps \in RequestParams : StartRequest(q, "GET", Pa, ps)
       \/ Serve(q)

LateSpec == ParamInit /\ [][LateNext]_vars


\* An application that installs the middleware of Top, then the middleware
\* of Sub, then one more function; the two routers bind different methods
\* to `/a`, and Top knows DELETE from a route for another path.
ChainInputs(r) ==
  IF r = Top
    THEN { <<Pa, <<"post">>, <<Fn>>>>, <<Pb, <<"delete">>, <<Fn>>>> }
    ELSE { <<Pa, <<"get">>, <<Fn>>>> }

ChainMethods == {"GET", "OPTIONS", "DELETE"}

ChainNext ==
  \/ \E r \in RouterIds : \E a \in ChainInputs(r) :
       register(r, <<>>, a[1], a[2], a[3])
  \/ LET q == First IN
       \/ \E m \in ChainMethods, ps \in RequestParams :
            StartRequestThrough(q, <<Top, Sub>>, m, Pa, ps)
       \/ Serve(q)

ChainSpec == ParamInit /\ [][ChainNext]_vars

\* An application with redirections, a route that was given no middleware,
\* before and after a parameter function is set, and a pattern that names
\* one key twice, and the requests for them.
Pxx == <<"/", ":x", "/", ":x">>

EdgeRedirects == { <<Pa, Pb, 0>>, <<Pa, <<"nope">>, 302>> }

EdgeInputs ==
  { <<Pa, <<"get">>, <<>>>>,
    <<Pxx, <<"get">>, <<Fn>>>> }

EdgeMethods == {"GET", "OPTIONS"}

EdgePaths == {Pa, Pab}

EdgeNext ==
  \/ \E a \in EdgeRedirects : redirect(Top, a[1], a[2], a[3])
  \/ \E a \in EdgeInputs : register(Top, <<>>, a[1], a[2], a[3])
  \/ param(Top, "x", 1)
  \/ LET q == First IN
       \/ \E m \in EdgeMethods, p \in EdgePaths, ps \in RequestParams :
            StartRequest(q, m, p, ps)
       \/ Serve(q)

EdgeSpec == Init /\ [][EdgeNext]_vars

\* ------------------------------------------------------------- observations
Events(q) == 1..Len(log[q])

Is(q, n, e, d) == log[q][n].e = e /\ log[q][n].d = d

SameScope(c1, c2) == c1.path = c2.path /\ c1.params = c2.params

\* The context the dispatch d of request q was entered with.
EntryOf(q, d) ==
  log[q][CHOOSE m \in Events(q) : Is(q, m, "dispatch", d)].ctx

Raised(q, n) == log[q][n].beh.act = "throw"

\* The candidates of dispatch d that the walk has to invoke.
ApplicableRoutes(q, d) ==
  { disp[q][d].routes[k].route : k \in
      { k \in 1..Len(disp[q][d].routes) :
          Applicable(routes[disp[q][d].r][disp[q][d].routes[k].route],
                     disp[q][d].method) } }

\* -------------------------------------------------------------------- C1
\* C1: when the router middleware returns normally, path and params are
\* the values the dispatch was entered with.
DispatchRestoresScope ==
  \A q \in Requests : \A n \in Events(q) :
    log[q][n].e = "exit" =>
      /\ \E m \in 1..(n - 1) : Is(q, m, "dispatch", log[q][n].d)
      /\ SameScope(log[q][n].ctx, EntryOf(q, log[q][n].d))

\* A finished request in which a nested router ran a handler under a path
\* and params that differ from those of the request.
DispatchRestoresScopeWitness ==
  \E q \in Requests :
    /\ ctl[q].op = "finished"
    /\ \E n \in Events(q) :
         /\ Is(q, n, "invoke", 2)
         /\ log[q][n].ctx.path # EntryOf(q, 1).path
         /\ log[q][n].ctx.params # EntryOf(q, 1).params
    /\ \E n \in Events(q) : Is(q, n, "exit", 1)

\* -------------------------------------------------------------------- C2
\* C2: when an error leaves the router, path and params are the values the
\* request had before the dispatch was entered.
ErrorLeavesScopeRestored ==
  \A q \in Requests :
    ctl[q].op = "failed" => SameScope(ctx[q], EntryOf(q, 1))

\* -------------------------------------------------------------------- C3
\* C3: a route function that invoked its continuation sees, when the
\* continuation returns, the path and params it saw when it was entered.
HandlerKeepsItsScope ==
  \A q \in Requests : \A n \in Events(q) :
    log[q][n].e = "resume" =>
      SameScope(log[q][n].ctx, log[q][log[q][n].ref].ctx)

\* A function resumed after a later candidate ran under another path.
HandlerKeepsItsScopeWitness ==
  \E q \in Requests : \E n \in Events(q) :
    /\ log[q][n].e = "resume" /\ log[q][n].r # 0
    /\ \E m \in (log[q][n].ref + 1)..(n - 1) :
         /\ log[q][m].e = "invoke"
         /\ ~SameScope(log[q][m].ctx, log[q][n].ctx)

\* -------------------------------------------------------------------- C4
\* C4: the downstream collaborator is invoked with the path and params of
\* dispatch entry.
DownstreamSeesEntryScope ==
  \A q \in Requests : \A n \in Events(q) :
    log[q][n].e = "done" => SameScope(log[q][n].ctx, EntryOf(q, log[q][n].d))

\* The walk is exhausted after a candidate ran under another path and params.
DownstreamSeesEntryScopeWitness ==
  \E q \in Requests : \E n \in Events(q) :
    /\ log[q][n].e = "done"
    /\ \E m \in 1..(n - 1) :
         /\ Is(q, m, "invoke", log[q][n].d)
         /\ log[q][m].ctx.path # log[q][n].ctx.path
         /\ log[q][m].ctx.params # log[q][n].ctx.params

\* -------------------------------------------------------------------- C5
DoneCount(q, d) == Cardinality({n \in Events(q) : Is(q, n, "done", d)})

EveryHandlerPassed(q) ==
  \A n \in Events(q) :
    /\ log[q][n].e = "enter" => log[q][n].beh.act = "pass"
    /\ log[q][n].e = "resume" => log[q][n].beh.act = "return"

\* C5 as stated: a dispatch that returned has invoked the downstream
\* continuation exactly once.
DownstreamExactlyOnce ==
  \A q \in Requests : \A n \in Events(q) :
    log[q][n].e = "exit" => DoneCount(q, log[q][n].d) = 1

\* Every function of a route that was entered invoked its continuation.
EveryFunctionPassed(q) ==
  \A n \in Events(q) :
    (log[q][n].e = "enter" /\ log[q][n].r # 0) => log[q][n].beh.act = "pass"

\* C5 as amended: the downstream continuation is invoked at most once per
\* dispatch, and exactly once by the time the dispatch returns when every
\* function of a route entered so far invoked its continuation, whatever
\* the functions did afterwards.
DownstreamOnceIfPassed ==
  \A q \in Requests :
    /\ \A d \in 1..Len(disp[q]) : DoneCount(q, d) <= 1
    /\ \A n \in Events(q) :
         (log[q][n].e = "exit" /\ EveryFunctionPassed(q)) =>
           DoneCount(q, log[q][n].d) = 1

\* A finished request in which two candidates of one dispatch were invoked,
\* every function passed, and the downstream function ran.
DownstreamOnceIfPassedWitness ==
  \E q \in Requests :
    /\ ctl[q].op = "finished" /\ EveryHandlerPassed(q)
    /\ \E n, m \in Events(q) :
         /\ Is(q, n, "invoke", 1) /\ Is(q, m, "invoke", 1) /\ n # m
    /\ \E n \in Events(q) : log[q][n].e = "enter" /\ log[q][n].r = 0

\* -------------------------------------------------------------------- C6
\* The middleware of route i of dispatch d has been left (returned or
\* raised) at event n.
Left(q, n, d, i) ==
  /\ log[q][n].d = d /\ log[q][n].i = i
  /\ \/ log[q][n].e = "back"
     \/ log[q][n].e = "abort" /\ log[q][n].beh.act = "mw"

\* C6: the middleware of candidate B is entered only while the middleware
\* of every applicable candidate A registered before B is active, and A is
\* left, and resumes after its continuation, only after B has been left.
WalkInRegistrationOrder ==
  \A q \in Requests : \A n \in Events(q) :
    LET d == log[q][n].d
        b == log[q][n].i
    IN log[q][n].e = "invoke" =>
         \A a \in ApplicableRoutes(q, d) :
           a < b =>
             /\ \E m \in 1..(n - 1) :
                  /\ Is(q, m, "invoke", d) /\ log[q][m].i = a
                  /\ \A k \in m..n : ~Left(q, k, d, a)
             /\ \A k \in (n + 1)..Len(log[q]) :
                  (Left(q, k, d, a)
                    \/ (log[q][k].e \in {"resume", "caught"} /\ log[q][k].d = d
                          /\ log[q][k].r # 0 /\ log[q][k].i = a)) =>
                    \E l \in (n + 1)..(k - 1) : Left(q, l, d, b)

\* A finished request in which two candidates of one dispatch were entered
\* and the first resumed after the second returned.
WalkInRegistrationOrderWitness ==
  \E q \in Requests :
    /\ ctl[q].op = "finished"
    /\ \E m, n, k \in Events(q) :
         /\ m < n /\ n < k
         /\ Is(q, m, "invoke", 1) /\ Is(q, n, "invoke", 1)
         /\ log[q][m].i < log[q][n].i
         /\ log[q][k].e = "resume" /\ log[q][k].d = 1
         /\ log[q][k].i = log[q][m].i

\* -------------------------------------------------------------------- C7
\* The walk of dispatch d went on at event n.
WalkEvent(q, n, d) ==
  log[q][n].d = d /\ log[q][n].j = 0
    /\ log[q][n].e \in {"invoke", "skip", "done"}

\* The middleware invoked at m returned at n without its continuation
\* having been invoked.
ReturnedWithoutContinuing(q, m, n) ==
  /\ m < n /\ log[q][m].e = "invoke"
  /\ log[q][n].e = "back" /\ log[q][n].d = log[q][m].d
  /\ log[q][n].i = log[q][m].i
  /\ \A k \in (m + 1)..(n - 1) : ~WalkEvent(q, k, log[q][m].d)

\* C7: after an invoked middleware returned without invoking its
\* continuation, the dispatch invokes no candidate and not the downstream
\* collaborator.
ShortCircuitStopsWalk ==
  \A q \in Requests : \A m, n \in Events(q) :
    ReturnedWithoutContinuing(q, m, n) =>
      \A k \in (n + 1)..Len(log[q]) : ~WalkEvent(q, k, log[q][m].d)

\* A finished request whose first candidate returned without continuing
\* although an applicable candidate was left.
ShortCircuitStopsWalkWitness ==
  \E q \in Requests :
    /\ ctl[q].op = "finished"
    /\ \E m, n \in Events(q) :
         /\ ReturnedWithoutContinuing(q, m, n)
         /\ log[q][m].d = 1
         /\ \E a \in ApplicableRoutes(q, 1) : a > log[q][m].i

\* -------------------------------------------------------------------- C8
\* C8: after a function raised, no function, candidate or downstream
\* collaborator is entered; a generator of the router that the error passes
\* through writes no status and no header; and the error is turned into a
\* normal return by nothing but a function that catches it.
ErrorPropagates ==
  \A q \in Requests : \A m \in Events(q) :
    Raised(q, m) =>
      /\ \A n \in (m + 1)..Len(log[q]) :
           /\ log[q][n].e \notin {"enter", "dispatch", "invoke", "skip", "done"}
           /\ log[q][n].e = "abort" =>
                /\ log[q][n].ctx.status = log[q][n - 1].ctx.status
                /\ log[q][n].ctx.allowSet = log[q][n - 1].ctx.allowSet
                /\ log[q][n].ctx.allow = log[q][n - 1].ctx.allow
      /\ (\A n \in (m + 1)..Len(log[q]) : log[q][n].e # "caught") =>
           ctl[q].op \in {"throw", "failed"}

\* The first function of a two-function route raised, a later candidate was
\* applicable, and the error left the router.
ErrorPropagatesWitness ==
  \E q \in Requests :
    /\ ctl[q].op = "failed"
    /\ \E m \in Events(q) :
         /\ log[q][m].e = "enter" /\ Raised(q, m)
         /\ log[q][m].d = 1 /\ log[q][m].j = 1
         /\ Len(routes[Top][log[q][m].i].middleware) = 2
         /\ \E a \in ApplicableRoutes(q, 1) : a > log[q][m].i

\* -------------------------------------------------------------------- C9
\* C9: a dispatch without candidates invokes the downstream collaborator
\* with the context it was entered with, does nothing between that call and
\* its own return, and returns the context as the collaborator left it.
NoMatchChangesNothing ==
  \A q \in Requests : \A n \in Events(q) :
    LET d == log[q][n].d IN
    (log[q][n].r # 0 /\ log[q][n].j = 0 /\ disp[q][d].routes = <<>>) =>
      /\ log[q][n].e \in {"dispatch", "done", "exit", "abort"}
      /\ log[q][n].e = "done" =>
           /\ Is(q, n - 1, "dispatch", d)
           /\ log[q][n].ctx = log[q][n - 1].ctx
      /\ log[q][n].e = "exit" => log[q][n].ctx = log[q][n - 1].ctx

\* A finished request on a router that has routes of which none matches
\* the path: the status is still koa's 404 and no Allow header is set.
NoMatchChangesNothingWitness ==
  \E q \in Requests :
    /\ ctl[q].op = "finished"
    /\ routes[Top] # <<>> /\ disp[q][1].routes = <<>>
    /\ ctx[q].method = "DELETE"
    /\ ctx[q].status = 404 /\ ~ctx[q].allowSet

\* -------------------------------------------------------------------- C10
Declares(r, method) ==
  \E i \in 1..Len(routes[r]) : IndexOf(routes[r][i].methods, method)

\* C10: the synthesized status is 204 for OPTIONS, else 405 if a route of
\* the router declares the request method, else 501.
FallbackStatus ==
  \A q \in Requests : \A n \in Events(q) :
    log[q][n].e = "synth" =>
      log[q][n].ctx.status =
        IF log[q][n].ctx.method = "OPTIONS" THEN 204
        ELSE IF Declares(log[q][n].r, log[q][n].ctx.method) THEN 405
        ELSE 501

\* A 405 was synthesized: the method is declared by a route of the router
\* that is not among the candidates.
FallbackStatusWitness ==
  \E q \in Requests : \E n \in Events(q) :
    /\ log[q][n].e = "synth" /\ log[q][n].ctx.status = 405
    /\ log[q][n].ctx.method = "GET"

\* -------------------------------------------------------------------- C11
\* The router holds the routes `GET /user` and `POST /user` and nothing
\* else, and request q asks for `DELETE /user`; no function set a status.
DeleteUser(q) ==
  /\ routes[Top] = << Route(Pa, <<"get">>, <<Fn>>, <<>>, opts[Top]),
                      Route(Pa, <<"post">>, <<Fn>>, <<>>, opts[Top]) >>
  /\ ctl[q].op = "finished"
  /\ ctx[q].method = "DELETE" /\ EntryOf(q, 1).path = Pa
  /\ ~ctx[q].explicit

\* C11 as stated: with routes for GET /user and POST /user, DELETE /user
\* yields status 405 and the header Allow: GET, POST.
DeleteUserIs405 ==
  \A q \in Requests :
    DeleteUser(q) =>
      /\ ctx[q].status = 405
      /\ ctx[q].allowSet /\ ctx[q].allow = <<"GET", ", ", "POST">>

\* C11 as amended: with routes for GET /user and POST /user and no route
\* for DELETE, DELETE /user yields status 501 and an empty Allow header.
DeleteUserIs501 ==
  \A q \in Requests :
    (DeleteUser(q) /\ ~Declares(Top, "DELETE")) =>
      /\ ctx[q].status = 501 /\ ctx[q].statusMessage = 501
      /\ ctx[q].allowSet /\ ctx[q].allow = <<>>

\* DELETE /user was served: both routes were candidates, both were passed
\* over, the downstream function ran and the fallback was synthesized.
DeleteUserIs501Witness ==
  \E q \in Requests :
    /\ DeleteUser(q)
    /\ \E m, n \in Events(q) :
         /\ m < n /\ Is(q, m, "skip", 1) /\ Is(q, n, "skip", 1)
         /\ log[q][m].i = 1 /\ log[q][n].i = 2
    /\ \E n \in Events(q) : log[q][n].e = "enter" /\ log[q][n].r = 0
    /\ \E n \in Events(q) : Is(q, n, "synth", 1)

\* -------------------------------------------------------------------- C12
\* The methods bound by the candidates of dispatch d, candidate after
\* candidate, with repetitions.
RECURSIVE MethodsFrom(_, _, _)
MethodsFrom(q, d, k) ==
  IF k > Len(disp[q][d].routes) THEN <<>>
  ELSE routes[disp[q][d].r][disp[q][d].routes[k].route].methods
         \o MethodsFrom(q, d, k + 1)

FirstAt(s, x) == CHOOSE k \in 1..Len(s) : s[k] = x /\ \A j \in 1..(k - 1) : s[j] # x

\* The sequence `header` is the join by ", " of the methods of `every`, each
\* once, in the order of their first occurrence.
ListsEachOnce(header, every) ==
  LET names == {k \in 1..Len(header) : k % 2 = 1} IN
  /\ \A k \in 1..Len(header) : k % 2 = 0 => header[k] = ", "
  /\ Len(header) = 0 \/ Len(header) % 2 = 1
  /\ {header[k] : k \in names} = {every[k] : k \in 1..Len(every)}
  /\ \A j, k \in names :
       j < k => /\ header[j] # header[k]
                /\ FirstAt(every, header[j]) < FirstAt(every, header[k])

\* The route of candidate k of dispatch d.
CandidateRoute(q, d, k) ==
  routes[disp[q][d].r][disp[q][d].routes[k].route]

\* The path of dispatch d has candidates and none of them declares OPTIONS.
CandidatesLackOptions(q, d) ==
  /\ disp[q][d].routes # <<>>
  /\ \A k \in 1..Len(disp[q][d].routes) :
       ~IndexOf(CandidateRoute(q, d, k).methods, "OPTIONS")

\* Every candidate of dispatch d binds methods, OPTIONS not among them.
NoCandidateDeclaresOptions(q, d) ==
  /\ CandidatesLackOptions(q, d)
  /\ \A k \in 1..Len(disp[q][d].routes) : ~CandidateRoute(q, d, k).asPrefix

\* C12 as stated: an OPTIONS dispatch none of whose candidates declares
\* OPTIONS, and whose downstream collaborator returned without an explicit
\* status, has status 204 and an Allow header that lists the methods of
\* the candidates, each once, in registration order.
OptionsGets204WhateverCandidates ==
  \A q \in Requests : \A n \in Events(q) :
    LET d == log[q][n].d IN
    (log[q][n].e = "unwound" /\ disp[q][d].method = "OPTIONS"
       /\ CandidatesLackOptions(q, d) /\ ~log[q][n].ctx.explicit) =>
      /\ log[q][n].ctx.status = 204
      /\ log[q][n].ctx.allowSet
      /\ ListsEachOnce(log[q][n].ctx.allow, MethodsFrom(q, d, 1))

\* C12 as amended: an OPTIONS dispatch all of whose candidates bind
\* methods, OPTIONS not among them, and whose downstream collaborator
\* returned without an explicit status, has status 204 and an Allow header
\* that lists the methods of the candidates, each once, in registration
\* order.
OptionsGets204 ==
  \A q \in Requests : \A n \in Events(q) :
    LET d == log[q][n].d IN
    (log[q][n].e = "unwound" /\ disp[q][d].method = "OPTIONS"
       /\ NoCandidateDeclaresOptions(q, d) /\ ~log[q][n].ctx.explicit) =>
      /\ log[q][n].ctx.status = 204
      /\ log[q][n].ctx.allowSet
      /\ ListsEachOnce(log[q][n].ctx.allow, MethodsFrom(q, d, 1))

\* A finished OPTIONS request with two candidates that bind POST both and
\* GET one of them: the answer is 204 with two methods in Allow.
OptionsGets204Witness ==
  \E q \in Requests :
    /\ ctl[q].op = "finished" /\ ctx[q].method = "OPTIONS"
    /\ NoCandidateDeclaresOptions(q, 1)
    /\ Len(MethodsFrom(q, 1, 1)) = 3
    /\ ctx[q].status = 204 /\ Len(ctx[q].allow) = 3

\* -------------------------------------------------------------------- C13
\* Event n is the return of the walk of a dispatch in the fallback case:
\* the path has candidates, none of them is applicable to the method, and
\* the downstream collaborator returned without an explicit status.
FallbackCase(q, n) ==
  LET d == log[q][n].d IN
  /\ log[q][n].e = "unwound" /\ ~log[q][n].ctx.explicit
  /\ disp[q][d].routes # <<>>
  /\ \A k \in 1..Len(disp[q][d].routes) :
       ~Applicable(routes[disp[q][d].r][disp[q][d].routes[k].route],
                   disp[q][d].method)

\* C13 as stated: a request for a method that no route of the router
\* declares yields status 501.
NotRegisteredIs501 ==
  \A q \in Requests : \A n \in Events(q) :
    (FallbackCase(q, n) /\ ~Declares(log[q][n].r, log[q][n].ctx.method)) =>
      log[q][n].ctx.status = 501

\* C13 as amended: a request for a method other than OPTIONS that no route
\* of the router declares yields status 501 in the fallback case.
NotRegisteredNotOptionsIs501 ==
  \A q \in Requests : \A n \in Events(q) :
    (FallbackCase(q, n) /\ ~Declares(log[q][n].r, log[q][n].ctx.method)
       /\ log[q][n].ctx.method # "OPTIONS") =>
      /\ log[q][n].ctx.status = 501
      /\ log[q][n].ctx.statusMessage = 501

\* A finished DELETE request on a router with two candidates for the path
\* and no route for DELETE: the status is 501.
NotRegisteredNotOptionsIs501Witness ==
  \E q \in Requests :
    /\ ctl[q].op = "finished" /\ ctx[q].method = "DELETE"
    /\ Len(disp[q][1].routes) = 2
    /\ \E n \in Events(q) : FallbackCase(q, n) /\ log[q][n].d = 1
    /\ ctx[q].status = 501

\* -------------------------------------------------------------------- C14
\* No candidate of dispatch d is applicable to the method of the request.
NoneApplicable(q, d) ==
  disp[q][d].routes # <<>> /\ ApplicableRoutes(q, d) = {}

\* C14: once a function has set a status explicitly, the router leaves the
\* response alone: no fallback is synthesized, the status stays, and the
\* Allow header is not written.
ExplicitStatusIsKept ==
  \A q \in Requests : \A m \in Events(q) :
    (log[q][m].e = "enter" /\ log[q][m].beh.write) =>
      \A n \in (m + 1)..Len(log[q]) :
        /\ log[q][n].e # "synth"
        /\ log[q][n].ctx.status = log[q][m].ctx.status
        /\ log[q][n].ctx.explicit
        /\ log[q][n].ctx.allowSet = log[q][m].ctx.allowSet
        /\ log[q][n].ctx.allow = log[q][m].ctx.allow

\* A finished request whose path had candidates, none applicable, and
\* whose downstream function set the status: it is still that status, and
\* there is no Allow header.
ExplicitStatusIsKeptWitness ==
  \E q \in Requests :
    /\ ctl[q].op = "finished" /\ NoneApplicable(q, 1)
    /\ \E m \in Events(q) :
         /\ log[q][m].e = "enter" /\ log[q][m].r = 0 /\ log[q][m].beh.write
         /\ \E n \in (m + 1)..Len(log[q]) : Is(q, n, "unwound", 1)
    /\ ctx[q].status = 200 /\ ~ctx[q].allowSet

\* -------------------------------------------------------------------- C15
\* C15: a dispatch that invoked the middleware of a candidate synthesizes
\* no fallback; if moreover no function set a status and no nested
\* dispatch synthesized one, the request leaves the router with the status
\* the host gave it and without an Allow header.
HandledMeansNoFallback ==
  \A q \in Requests :
    /\ \A m, n \in Events(q) :
         (log[q][m].e = "invoke" /\ log[q][n].e = "synth") =>
           log[q][m].d # log[q][n].d
    /\ \A n \in Events(q) :
         (Is(q, n, "exit", 1)
            /\ (\E m \in Events(q) : Is(q, m, "invoke", 1))
            /\ (\A m \in Events(q) :
                  log[q][m].e # "synth" /\ ~log[q][m].beh.write)) =>
           /\ log[q][n].ctx.status = 404
           /\ ~log[q][n].ctx.allowSet

\* A finished DELETE request whose only applicable candidate was a prefix
\* route, with a passed-over candidate beside it, in which every function
\* passed control on and none set a status: the status is 404.
HandledMeansNoFallbackWitness ==
  \E q \in Requests :
    /\ ctl[q].op = "finished" /\ ctx[q].method = "DELETE"
    /\ EveryHandlerPassed(q)
    /\ \E m \in Events(q) :
         /\ Is(q, m, "invoke", 1)
         /\ routes[Top][log[q][m].i].asPrefix
    /\ \E m \in Events(q) : Is(q, m, "skip", 1)
    /\ \E m \in Events(q) : Is(q, m, "done", 1)
    /\ \A m \in Events(q) : log[q][m].e # "synth"
    /\ ctx[q].status = 404 /\ ~ctx[q].allowSet

\* -------------------------------------------------------------------- C16
\* The route event n of request q is about.
RouteOf(q, n) == routes[log[q][n].r][log[q][n].i]

\* What the route of event n captures from the path its dispatch was
\* entered with.
CapturedAt(q, n) == match(RouteOf(q, n), disp[q][log[q][n].d].pathname).params

\* C16: in a HEAD dispatch no candidate that declares GET is passed over;
\* its middleware is invoked with the params the route captured, and the
\* dispatch synthesizes no fallback.
HeadFallsBackToGet ==
  \A q \in Requests : \A n \in Events(q) :
    (log[q][n].j = 0 /\ log[q][n].i # 0 /\ log[q][n].ctx.method = "HEAD"
       /\ IndexOf(RouteOf(q, n).methods, "GET")) =>
      /\ log[q][n].e # "skip"
      /\ log[q][n].e = "invoke" =>
           /\ CapturedAt(q, n).map \subseteq log[q][n].ctx.params.map
           /\ disp[q][log[q][n].d].called
           /\ \A m \in Events(q) : ~Is(q, m, "synth", log[q][n].d)

\* A finished HEAD request served by a route that declares GET and not
\* HEAD, under the parameter the route captured.
HeadFallsBackToGetWitness ==
  \E q \in Requests :
    /\ ctl[q].op = "finished" /\ ctx[q].method = "HEAD"
    /\ \E n, m \in Events(q) :
         /\ n < m
         /\ Is(q, n, "invoke", 1)
         /\ IndexOf(RouteOf(q, n).methods, "GET")
         /\ ~IndexOf(RouteOf(q, n).methods, "HEAD")
         /\ <<"x", <<"a">>>> \in log[q][n].ctx.params.map
         /\ log[q][m].e = "enter" /\ log[q][m].d = 1 /\ log[q][m].i = log[q][n].i
    /\ ctx[q].status = 404

\* -------------------------------------------------------------------- C17
\* C17: a candidate without bound methods is never passed over, whatever
\* the method of the request; its middleware is invoked and the dispatch
\* counts as handled.
PrefixRouteAlwaysApplies ==
  \A q \in Requests : \A n \in Events(q) :
    (log[q][n].j = 0 /\ log[q][n].i # 0 /\ RouteOf(q, n).asPrefix) =>
      /\ log[q][n].e # "skip"
      /\ log[q][n].e = "invoke" =>
           /\ disp[q][log[q][n].d].called
           /\ \E m \in 1..(n - 1) : Is(q, m, "dispatch", log[q][n].d)
      /\ \A m \in Events(q) : ~Is(q, m, "synth", log[q][n].d)

\* An OPTIONS request on a router without a route for OPTIONS: the first
\* function of a prefix route was entered on a proper prefix of the path.
PrefixRouteAlwaysAppliesWitness ==
  \E q \in Requests : \E n, m \in Events(q) :
    /\ ctx[q].method = "OPTIONS" /\ ~Declares(Top, "OPTIONS")
    /\ n < m
    /\ Is(q, n, "invoke", 1) /\ RouteOf(q, n).asPrefix
    /\ log[q][n].ctx.path = Pb
    /\ log[q][m].e = "enter" /\ log[q][m].d = 1 /\ log[q][m].j = 1
    /\ log[q][m].i = log[q][n].i

\* -------------------------------------------------------------------- C18
\* Event n is a function of a route at work: entered, resumed after its
\* continuation returned, or catching what its continuation raised.
AtWork(q, n) ==
  /\ log[q][n].r # 0 /\ log[q][n].j # 0
  /\ log[q][n].e \in {"enter", "resume", "caught"}

\* What the route of event n leaves of the path its dispatch was entered
\* with.
SuffixAt(q, n) == match(RouteOf(q, n), disp[q][log[q][n].d].pathname).path

\* C18: in replace mode, a function of a candidate's middleware sees as
\* path the unconsumed suffix of the candidate and as params exactly the
\* params the candidate captured.
ReplaceModeScope ==
  \A q \in Requests : \A n \in Events(q) :
    (AtWork(q, n) /\ ~opts[log[q][n].r].mergeParams) =>
      /\ log[q][n].ctx.path = SuffixAt(q, n)
      /\ log[q][n].ctx.params = CapturedAt(q, n)

\* -------------------------------------------------------------------- C19
\* C19: in merge mode, a function of a candidate's middleware sees as
\* params the params of dispatch entry overlaid with the params the
\* candidate captured, whatever candidates were invoked before.
MergeModeScope ==
  \A q \in Requests : \A n \in Events(q) :
    (AtWork(q, n) /\ opts[log[q][n].r].mergeParams) =>
      LET base == EntryOf(q, log[q][n].d).params
          own == CapturedAt(q, n)
      IN /\ own.map \subseteq log[q][n].ctx.params.map
         /\ \A kv \in base.map :
              kv[1] \notin Keys(own) => kv \in log[q][n].ctx.params.map
         /\ Keys(log[q][n].ctx.params) = Keys(base) \cup Keys(own)

\* -------------------------------------------------------------------- C20
\* Event n is about the prefix route `/first/:id` of the top router in a
\* request for `/first/second/third`.
InMount(q, n) ==
  /\ log[q][n].d = 1 /\ log[q][n].i # 0
  /\ RouteOf(q, n).asPrefix /\ RouteOf(q, n).path = Pax
  /\ EntryOf(q, 1).path = Pabbb

\* The request for `/first/second/third` left the router normally with the
\* path it came with.
ParentSeesPathAgain(q) ==
  \A n \in Events(q) :
    (Is(q, n, "exit", 1) /\ EntryOf(q, 1).path = Pabbb) =>
      log[q][n].ctx.path = Pabbb

\* C20 as stated: under the mount `/first/:id` the handler of a request for
\* `/first/second/third` sees the path `/second/third`, and the parent sees
\* the original path after the router returned.
MountSeesSecondThird ==
  \A q \in Requests :
    /\ \A n \in Events(q) :
         (InMount(q, n) /\ log[q][n].e = "enter") =>
           log[q][n].ctx.path = <<"/", "b", "b", "/", "b">>
    /\ ParentSeesPathAgain(q)

\* C20 as amended: the handler sees the path `/third`, the pattern having
\* consumed `/first/second` with id = "second", and the parent sees the
\* original path after the router returned.
MountSeesThird ==
  \A q \in Requests :
    /\ \A n \in Events(q) :
         (InMount(q, n) /\ log[q][n].e = "enter") =>
           /\ log[q][n].ctx.path = <<"/", "b">>
           /\ <<"x", <<"b", "b">>>> \in log[q][n].ctx.params.map
    /\ ParentSeesPathAgain(q)

\* A finished request for `/first/second/third`: the function of the mount
\* ran, the nested router served `/third` with its own route, and the
\* router returned with the original path.
MountSeesThirdWitness ==
  \E q \in Requests :
    /\ ctl[q].op = "finished"
    /\ \E n \in Events(q) : InMount(q, n) /\ log[q][n].e = "enter"
    /\ \E n \in Events(q) : Is(q, n, "invoke", 2) /\ log[q][n].ctx.path = <<"/">>
    /\ \E n \in Events(q) : Is(q, n, "exit", 1) /\ log[q][n].ctx.path = Pabbb
\* ------------------------------------------------------------------- C25
\* The list has an element that is neither a function nor an application.
HasIllegal(middleware) ==
  \E k \in 1..Len(middleware) :
    ~IsFunction(middleware[k]) /\ ~HasUse(middleware[k])

\* The pieces of text occur in message, one after the other.
Contains(message, text) ==
  \E k \in 0..(Len(message) - Len(text)) :
    \A j \in 1..Len(text) : message[k + j] = text[j]

\* The call threw an Error that names the methods, the name or else the
\* path, and the type of an illegal element, and registered nothing.
Rejected(ms, name, path, middleware) ==
  /\ result'.kind = "threw" /\ result'.type = "Error"
  /\ \A k \in 1..Len(ms) : IndexOf(result'.value, ms[k])
  /\ IF name # <<>> THEN Contains(result'.value, name)
     ELSE Contains(result'.value, path)
  /\ \E k \in 1..Len(middleware) :
       /\ ~IsFunction(middleware[k]) /\ ~HasUse(middleware[k])
       /\ IndexOf(result'.value, middleware[k].k)
  /\ UNCHANGED <<routes, methods>>

NoIllegalRegistered ==
  \A r \in RouterIds : \A i \in 1..Len(routes[r]) :
    ~HasIllegal(routes[r][i].middleware)

\* C25: a registration (register, a verb wrapper, all, mount) that
\* constructs its Route with a middleware list that has an element that is
\* neither a function nor an application throws, in the call itself, an
\* error that names the methods, the name or the path of the route and the
\* type of the element, and no route with such an element is ever in the
\* table a request is served from.
IllegalMiddlewareIsRejectedAtOnce ==
  /\ []NoIllegalRegistered
  /\ [][/\ \A a \in SetupRegisterInputs :
            (HasIllegal(a[4]) /\ register(Top, a[1], a[2], a[3], a[4]))
              => Rejected(a[3], a[1], a[2], a[4])
        /\ \A m \in SetupVerbs, a \in SetupVerbInputs :
            LET got == verbArguments(a[1], a[2], a[3]) IN
            (HasIllegal(got.middleware) /\ verb(Top, m, a[1], a[2], a[3]))
              => Rejected(<<m>>, got.name, got.path, got.middleware)
        /\ \A a \in SetupAllInputs :
            LET got == allArguments(a[1], a[2], a[3]) IN
            (HasIllegal(got.middleware) /\ all(Top, a[1], a[2], a[3]))
              => Rejected(HttpMethods, got.name, got.path, got.middleware)
        /\ \A a \in SetupMountInputs :
            (HasIllegal(a[3]) /\ mount(Top, a[1], a[2], a[3]))
              => Rejected(<<>>, a[1], a[2], a[3])]_vars

\* ------------------------------------------------------------------- C26
AsSet(xs) == {xs[k] : k \in 1..Len(xs)}

NoRepeats(xs) == \A j, k \in 1..Len(xs) : j # k => xs[j] # xs[k]

\* The step appended one Route for path and ms to the routes of Top and
\* made its methods the union of the old ones and the upper-cased ms.
AppendsOne(path, ms) ==
  /\ Len(routes'[Top]) = Len(routes[Top]) + 1
  /\ SubSeq(routes'[Top], 1, Len(routes[Top])) = routes[Top]
  /\ routes'[Top][Len(routes'[Top])].path = path
  /\ AsSet(routes'[Top][Len(routes'[Top])].methods)
       = {toUpperCase(ms[k]) : k \in 1..Len(ms)}
  /\ routes'[Sub] = routes[Sub]
  /\ SubSeq(methods'[Top], 1, Len(methods[Top])) = methods[Top]
  /\ AsSet(methods'[Top])
       = AsSet(methods[Top]) \cup {toUpperCase(ms[k]) : k \in 1..Len(ms)}
  /\ NoRepeats(methods'[Top])

\* C26: a register that returns a Route, also through a verb wrapper,
\* appends exactly one Route at the end of routes, leaves the routes that
\* were there as they were and in their order, and makes router.methods the
\* union of its previous value and the upper-cased methods of the new
\* route, removing and repeating none.
RegisterAppendsOne ==
  [][/\ \A a \in SetupRegisterInputs :
          (register(Top, a[1], a[2], a[3], a[4]) /\ result'.kind = "returned")
            => AppendsOne(a[2], a[3])
     /\ \A m \in SetupVerbs, a \in SetupVerbInputs :
          (verb(Top, m, a[1], a[2], a[3]) /\ result'.kind = "returned")
            => AppendsOne(verbArguments(a[1], a[2], a[3]).path, <<m>>)]_vars

\* A second route was registered, with a verb twice among its methods and
\* one that the router knew already.
RegisterAppendsOneWitness ==
  /\ Len(routes[Top]) = 2
  /\ routes[Top][1].methods = <<"GET">>
  /\ routes[Top][2].methods = <<"GET", "GET", "POST">>
  /\ methods[Top] = <<"OPTIONS", "GET", "POST">>
  /\ result = Returned("Route", Pax)

\* ------------------------------------------------------------------- C27
\* C27: a mount with legal middleware leaves the routes with one Route more,
\* which has no methods and is a prefix route.
MountRegistersPrefixRoute ==
  [][\A a \in SetupMountInputs :
       (~HasIllegal(a[3]) /\ mount(Top, a[1], a[2], a[3])) =>
         /\ Len(routes'[Top]) = Len(routes[Top]) + 1
         /\ routes'[Top][Len(routes'[Top])].methods = <<>>
         /\ routes'[Top][Len(routes'[Top])].asPrefix]_vars

\* ------------------------------------------------------------------- C28
\* C28: router.url with a name that no route of the router carries returns
\* an Error, it does not throw, whatever the routes and the arguments.
UrlOfUnknownNameReturnsError ==
  [][\A name \in SetupNames, args \in SetupArgs :
       (/\ url(Top, name, args)
        /\ \A i \in 1..Len(routes[Top]) : routes[Top][i].name # name)
         => /\ result'.kind = "returned" /\ result'.type = "Error"
            /\ Contains(result'.value, name)]_vars

\* url was called with a name that no route carries while the router had a
\* route with another name.
UrlOfUnknownNameReturnsErrorWitness ==
  /\ result.type = "Error" /\ IndexOf(result.value, "nope")
  /\ \E i \in 1..Len(routes[Top]) : routes[Top][i].name = <<"user">>

\* ------------------------------------------------------------------- C29
\* C29: url for a Route built from a RegExp returns an Error, it neither
\* throws nor returns a string.
UrlOfRegExpRouteReturnsError ==
  [][\A args \in SetupArgs :
       (/\ url(Top, <<"rx">>, args)
        /\ \E i \in 1..Len(routes[Top]) :
             routes[Top][i].name = <<"rx">> /\ routes[Top][i].path = RxA.source)
         => result'.kind = "returned" /\ result'.type = "Error"]_vars

\* ------------------------------------------------------------------- C21
Dispatches(q) == 1..Len(disp[q])

\* Route i of the router of dispatch d is among the candidates of d.
Candidate(q, d, i) ==
  \E k \in 1..Len(disp[q][d].routes) : disp[q][d].routes[k].route = i

\* C21: a prefix route on `/a/` is no candidate for the path `/a`, whatever
\* the strict option of the router.
PrefixSlashIsSignificant ==
  \A q \in Requests : \A d \in Dispatches(q) :
    \A i \in 1..Len(routes[disp[q][d].r]) :
      (/\ routes[disp[q][d].r][i].asPrefix
       /\ routes[disp[q][d].r][i].path = PaSlash
       /\ disp[q][d].pathname = Pa)
        => ~Candidate(q, d, i)

\* ------------------------------------------------------------------- C22
\* C22: for routes with methods, without the strict option a route `/a/` is
\* a candidate for the path `/a` too; with the strict option the routes `/a`
\* and `/a/` are candidates for their own path only.
VerbSlashFollowsStrict ==
  \A q \in Requests : \A d \in Dispatches(q) :
    \A i \in 1..Len(routes[disp[q][d].r]) :
      LET route == routes[disp[q][d].r][i]
          pathname == disp[q][d].pathname
          strict == opts[disp[q][d].r].strict
      IN ~route.asPrefix =>
           /\ (~strict /\ route.path = PaSlash /\ pathname = Pa)
                => Candidate(q, d, i)
           /\ (strict /\ route.path \in {Pa, PaSlash}
                      /\ pathname \in {Pa, PaSlash})
                => (Candidate(q, d, i) <=> route.path = pathname)

\* ------------------------------------------------------------------- C30
\* The value of the one segment of a path of MatchPaths after decoding:
\* `%61` is "a", `b%` cannot be decoded and stays.
SegmentValue(pathname) ==
  CASE pathname = <<"/", "%", "6", "1">> -> <<"a">>
    [] pathname = <<"/", "b", "%">> -> <<"b", "%">>
    [] OTHER -> Tail(pathname)

\* C30: a route `/:x` is a candidate for every path of one segment, whether
\* the segment can be percent-decoded or not; its parameter is the decoded
\* segment if it can be decoded and the segment as it is if not.
DecodingNeverFailsAMatch ==
  \A q \in Requests : \A d \in Dispatches(q) :
    \A i \in 1..Len(routes[disp[q][d].r]) :
      (/\ routes[disp[q][d].r][i].path = Px
       /\ ~routes[disp[q][d].r][i].asPrefix
       /\ disp[q][d].pathname \in MatchPaths \ {PaSlash, Pab})
        => \E k \in 1..Len(disp[q][d].routes) :
             /\ disp[q][d].routes[k].route = i
             /\ disp[q][d].routes[k].params
                  = Obj({<<"x", SegmentValue(disp[q][d].pathname)>>})

\* A handler of the route `/:x` ran for the path `/b%` with the segment as
\* its parameter.
DecodingNeverFailsAMatchWitness ==
  \E q \in Requests : \E n \in Events(q) :
    /\ log[q][n].e = "enter" /\ log[q][n].r = Top
    /\ disp[q][1].pathname = <<"/", "b", "%">>
    /\ log[q][n].ctx.params = Obj({<<"x", <<"b", "%">>>>})

\* ------------------------------------------------------------------- C23
\* The element of the middleware of its route that event n of q entered.
Entered(q, n) ==
  routes[log[q][n].r][log[q][n].i].middleware[log[q][n].j]

\* Event n of q is the start of a function of a route.
RouteEnter(q, n) == log[q][n].e = "enter" /\ log[q][n].r # 0

SameInvocation(q, n, m) ==
  /\ log[q][n].r = log[q][m].r /\ log[q][n].i = log[q][m].i
  /\ log[q][n].d = log[q][m].d

\* The place of the parameter p among the placeholders of the pattern.
PlaceOf(route, p) == CHOOSE k \in 1..Len(route.params) : route.params[k] = p

\* C23: of two functions of one invocation of a route, a parameter function
\* never starts after a registered handler, and of two parameter functions
\* the one whose parameter comes first in the pattern starts first; a
\* handler starts only after every parameter function of the route did.
HooksRunFirstInPatternOrder ==
  \A q \in Requests : \A m \in Events(q) :
    RouteEnter(q, m) =>
      LET route == routes[log[q][m].r][log[q][m].i] IN
      /\ \A n \in 1..(m - 1) :
           (RouteEnter(q, n) /\ SameInvocation(q, n, m)
              /\ Entered(q, m).k = "param") =>
             /\ Entered(q, n).k = "param"
             /\ PlaceOf(route, Entered(q, n).p) < PlaceOf(route, Entered(q, m).p)
      /\ Entered(q, m).k # "param" =>
           \A j \in 1..Len(route.middleware) :
             route.middleware[j].k = "param" =>
               \E n \in 1..(m - 1) :
                 /\ RouteEnter(q, n) /\ SameInvocation(q, n, m)
                 /\ log[q][n].j = j

\* The function for y was registered before the one for x, and on the route
\* `/:x/:y` the function for x started, then the one for y, then the
\* handler.
HooksRunFirstInPatternOrderWitness ==
  /\ Len(routerParams[Top]) = 2 /\ routerParams[Top][1][1] = "y"
  /\ \E q \in Requests : \E n, m, l \in Events(q) :
       /\ n < m /\ m < l
       /\ RouteEnter(q, n) /\ RouteEnter(q, m) /\ RouteEnter(q, l)
       /\ SameInvocation(q, n, m) /\ SameInvocation(q, m, l)
       /\ routes[log[q][n].r][log[q][n].i].path = Pxy
       /\ Entered(q, n).k = "param" /\ Entered(q, n).p = "x"
       /\ Entered(q, m).k = "param" /\ Entered(q, m).p = "y"
       /\ Entered(q, l).k = "fn"

\* ------------------------------------------------------------------- C24
\* The parameter functions among the middleware of a route for parameter p.
HooksFor(route, p) ==
  { route.middleware[j].h : j \in
      { j \in 1..Len(route.middleware) :
          route.middleware[j].k = "param" /\ route.middleware[j].p = p } }

\* The functions the router holds for parameter p.
Held(ps, p) == { ps[k][2] : k \in { k \in 1..Len(ps) : ps[k][1] = p } }

\* Every route has, for each parameter of its pattern, the function the
\* router holds for it and no other.
HooksInstalled ==
  \A r \in RouterIds : \A i \in 1..Len(routes[r]) :
    \A k \in 1..Len(routes[r][i].params) :
      HooksFor(routes[r][i], routes[r][i].params[k])
        = Held(routerParams[r], routes[r][i].params[k])

\* A handler of a route starts only after the function the router holds for
\* a parameter of the pattern started in the same invocation.
HeldHooksRun ==
  \A q \in Requests : \A m \in Events(q) :
    (RouteEnter(q, m) /\ Entered(q, m).k # "param") =>
      LET route == routes[log[q][m].r][log[q][m].i] IN
      \A k \in 1..Len(route.params) :
        \A h \in Held(routerParams[log[q][m].r], route.params[k]) :
          \E n \in 1..(m - 1) :
            /\ RouteEnter(q, n) /\ SameInvocation(q, n, m)
            /\ Entered(q, n) = ParamFn(route.params[k], h)

\* C24: the router holds for a parameter the function of the latest
\* router.param call for it, a registration leaves what the router holds,
\* and at every moment each route whose pattern has the parameter carries
\* that function and runs it, whether the route was registered before or
\* after the call.
LatestHookOnEveryRoute ==
  /\ [](HooksInstalled /\ HeldHooksRun)
  /\ [][/\ \A a \in ParamHooks :
            param(Top, a[1], a[2]) =>
              /\ Held(routerParams'[Top], a[1]) = {a[2]}
              /\ \A b \in ParamHooks :
                   b[1] # a[1] => Held(routerParams'[Top], b[1])
                                    = Held(routerParams[Top], b[1])
        /\ (\A a \in ParamHooks : ~param(Top, a[1], a[2]))
             => routerParams' = routerParams]_vars

\* The last call before the request was router.param for x with the second
\* function, after the first one and after both routes were registered, and
\* the route `/:x/:y` ran the second function before its handler.
LatestHookOnEveryRouteWitness ==
  /\ Len(routes[Top]) = 2
  /\ routerParams[Top] = <<<<"x", 2>>>>
  /\ result = Returned("Router", <<>>)
  /\ \E q \in Requests : \E n, m \in Events(q) :
       /\ n < m /\ RouteEnter(q, n) /\ RouteEnter(q, m)
       /\ SameInvocation(q, n, m)
       /\ routes[log[q][n].r][log[q][n].i].path = Pxy
       /\ Entered(q, n) = ParamFn("x", 2)
       /\ Entered(q, m).k = "fn"

\* ------------------------------------------------------------------- C33
\* The last n tokens of the path.
LastOf(pathname, n) == SubSeq(pathname, Len(pathname) - n + 1, Len(pathname))

\* C33: the path a candidate is invoked with starts with a slash; it is
\* what the pattern left of the request path, with a slash in front if that
\* does not start with one, and it is `/` alone when the pattern consumed
\* the whole path, as the pattern of a route with methods always does.
SuffixStartsWithSlash ==
  \A q \in Requests : \A d \in Dispatches(q) :
    \A k \in 1..Len(disp[q][d].routes) :
      LET cand == disp[q][d].routes[k]
          pathname == disp[q][d].pathname
          route == routes[disp[q][d].r][cand.route]
      IN /\ Len(cand.path) >= 1 /\ cand.path[1] = Slash
         /\ \E n \in 0..Len(pathname) :
              \/ n >= 1 /\ cand.path = LastOf(pathname, n)
              \/ /\ cand.path = <<Slash>> \o LastOf(pathname, n)
                 /\ (n = 0 \/ LastOf(pathname, n)[1] # Slash)
         /\ ~route.asPrefix => cand.path = <<Slash>>

\* A strict prefix route `/a/` left `b` of the path `/a/b` and its function
\* ran with the path `/b`.
SuffixStartsWithSlashWitness ==
  \E q \in Requests : \E n \in Events(q) :
    /\ opts[Top].strict
    /\ disp[q][1].pathname = Pab
    /\ log[q][n].e = "enter" /\ log[q][n].r = Top
    /\ routes[Top][log[q][n].i].path = PaSlash
    /\ routes[Top][log[q][n].i].asPrefix
    /\ log[q][n].ctx.path = <<"/", "b">>

\* ------------------------------------------------------------------- C31
\* What belongs to request q.
Own(q) == <<ctx[q], disp[q], stack[q], ctl[q], log[q]>>

\* The two events are the start, the resumption or the failed continuation
\* of the same function, whatever the function decided to do.
SameHandlerPoint(e1, e2) ==
  /\ e1.r = e2.r /\ e1.i = e2.i /\ e1.j = e2.j /\ e1.d = e2.d
  /\ \/ e1.e = "enter" /\ e2.e = "enter"
     \/ e1.e = "resume" /\ e2.e = "resume"
     \/ e1.e \in {"caught", "passed"} /\ e2.e \in {"caught", "passed"}

\* Requests p and q for the same method, path and params went the same way
\* as long as their functions decided the same.
SameCourse(p, q) ==
  /\ \A n \in Events(p) \cap Events(q) :
       SubSeq(log[p], 1, n - 1) = SubSeq(log[q], 1, n - 1) =>
         \/ log[p][n] = log[q][n]
         \/ SameHandlerPoint(log[p][n], log[q][n])
  /\ (/\ log[p] = log[q]
      /\ ctl[p].op \in {"finished", "failed"}
      /\ ctl[q].op \in {"finished", "failed"})
       => ctx[p] = ctx[q] /\ ctl[p] = ctl[q]

SameRequest(p, q) ==
  /\ log[p] # <<>> /\ log[q] # <<>>
  /\ log[p][1].ctx = log[q][1].ctx

\* C31: a step of one request leaves everything of the other request as it
\* is, and two requests for the same method, path and params, however their
\* steps interleave (one of them may run while the other has not started
\* or is over, which is running alone), invoke the same functions in the
\* same order, show them the same path and params and end with the same
\* status and Allow header as long as their functions decide the same.
RequestsAreIndependent ==
  /\ [](\A p, q \in Requests : SameRequest(p, q) => SameCourse(p, q))
  /\ [][\A q \in Requests :
          Own(q)' # Own(q) => \A p \in Requests \ {q} : Own(p)' = Own(p)]_vars

\* Both requests are in the router at the same time, for the same method,
\* path and params: the first waits in a function of a route, the second,
\* started later, has gone the same way up to the route before.
RequestsAreIndependentWitness ==
  /\ ctl[1].op \notin {"idle", "finished", "failed"}
  /\ ctl[2].op \notin {"idle", "finished", "failed"}
  /\ SameRequest(1, 2)
  /\ TopFrame(1).t = "fn" /\ TopFrame(1).r = Top
  /\ Len(log[2]) >= 2 /\ Len(log[1]) > Len(log[2])
  /\ SubSeq(log[1], 1, Len(log[2])) = log[2]

\* ------------------------------------------------------------------- C32
\* The middleware list the route with this path was registered with.
RegisteredHandlers(path) ==
  (CHOOSE a \in HookInputs : a[1] = path)[3]

\* The chain is n parameter functions, for parameters of the pattern, each
\* parameter at most once and in the order of the pattern, and then the
\* handlers the route was registered with.
HooksThenHandlers(route) ==
  \E n \in 0..Len(route.middleware) :
    /\ \A j \in 1..n :
         /\ route.middleware[j].k = "param"
         /\ IndexOf(route.params, route.middleware[j].p)
    /\ \A j, k \in 1..n :
         j < k => PlaceOf(route, route.middleware[j].p)
                    < PlaceOf(route, route.middleware[k].p)
    /\ SubSeq(route.middleware, n + 1, Len(route.middleware))
         = RegisteredHandlers(route.path)

\* route.param(p, h) on route i of Top made h the one function of the chain
\* for p if the pattern has p, and left the functions of the chain for the
\* other parameters and the other routes as they were.
SetsTheHook(i, p, h) ==
  /\ result'.kind = "returned"
  /\ \A k \in 1..Len(routes[Top][i].params) :
       HooksFor(routes'[Top][i], routes[Top][i].params[k])
         = IF routes[Top][i].params[k] = p THEN {h}
           ELSE HooksFor(routes[Top][i], routes[Top][i].params[k])
  /\ \A j \in 1..Len(routes[Top]) :
       j # i => routes'[Top][j] = routes[Top][j]
  /\ Len(routes'[Top]) = Len(routes[Top])

\* C32: after any sequence of route.param calls the chain of a route is,
\* for each parameter of the pattern in pattern order, the function set last
\* for it, if any, followed by the registered handlers once each in their
\* order; setting a function again replaces the earlier one, and a function
\* for a name the pattern does not have is in no chain and raises nothing.
ChainIsLatestHooksThenHandlers ==
  /\ [](\A i \in 1..Len(routes[Top]) : HooksThenHandlers(routes[Top][i]))
  /\ [][\A i \in 1..MaxRoutes, a \in RouteHooks :
          routeParamOn(Top, i, a[1], a[2]) => SetsTheHook(i, a[1], a[2])]_vars

\* On the route `/:y/:x` the function for x was set twice and the ones for y
\* and z once: the chain is the function for y, the second one for x and the
\* handler.
ChainIsLatestHooksThenHandlersWitness ==
  \E i \in 1..Len(routes[Top]) :
    /\ routes[Top][i].path = Pyx
    /\ routes[Top][i].fns.params = {<<"x", 2>>, <<"y", 1>>, <<"z", 1>>}
    /\ routes[Top][i].middleware = <<ParamFn("y", 1), ParamFn("x", 2), Fn>>

\* ------------------------------------------------------------------- C34
\* Event n of request q is the walk of a dispatch looking at a candidate.
Examines(q, n) == log[q][n].e \in {"invoke", "skip"}

\* C34: within one dispatch the candidates are examined in increasing order,
\* each at most once, the candidates are exhausted at most once, every
\* function of a route and the downstream function is entered at most once,
\* and a handler that yields to its finished continuation again gets control
\* back at once: nothing is examined or entered in between.
ContinuationsAreOneShot ==
  \A q \in Requests : \A m, n \in Events(q) :
    /\ (m < n /\ Examines(q, m) /\ Examines(q, n) /\ log[q][m].d = log[q][n].d)
         => log[q][m].i < log[q][n].i
    /\ (m < n /\ Is(q, m, "done", log[q][n].d)) => log[q][n].e # "done"
    /\ (m < n /\ log[q][m].e = "enter" /\ log[q][n].e = "enter")
         => <<log[q][m].r, log[q][m].i, log[q][m].j, log[q][m].d>>
              # <<log[q][n].r, log[q][n].i, log[q][n].j, log[q][n].d>>
    /\ (log[q][m].e = "again" /\ n = m + 1)
         => /\ log[q][n].e = "resume"
            /\ log[q][n].ref = log[q][m].ref

\* The first function of the second route yielded twice to its continuation,
\* which had walked to the end and run the downstream function; the request
\* finished with the downstream function entered once.
ContinuationsAreOneShotWitness ==
  LET q == First IN
    /\ ctl[q].op = "finished"
    /\ \E m, n \in Events(q) :
         /\ log[q][m].e = "again" /\ log[q][m].j = 1 /\ log[q][m].i = 2
         /\ n < m /\ log[q][n].e = "enter" /\ log[q][n].r = 0
         /\ log[q][m].ref < n
    /\ \E n \in Events(q) : log[q][n].e = "skip"

\* ------------------------------------------------------------------- C35
\* The steps the walk of dispatch d of request q has taken: candidates
\* looked at, and the exhaustion step.
WalkSteps(q, d) ==
  { n \in Events(q) : log[q][n].d = d /\ log[q][n].e \in {"invoke", "skip", "done"} }

WalkIsBounded ==
  \A q \in Requests : \A d \in 1..Len(disp[q]) :
    Cardinality(WalkSteps(q, d)) <= Len(disp[q][d].routes) + 1

\* C35: every request that was started comes to its end, and the walk of a
\* dispatch takes at most one step for each candidate and one exhaustion
\* step.
DispatchTerminates ==
  /\ []WalkIsBounded
  /\ (ctl[First].op # "idle") ~> (ctl[First].op \in {"finished", "failed"})

\* A request over two candidates finished after three steps of the walk.
DispatchTerminatesWitness ==
  LET q == First IN
    /\ ctl[q].op = "finished"
    /\ Len(disp[q]) = 1
    /\ Len(disp[q][1].routes) = 2
    /\ Cardinality(WalkSteps(q, 1)) = 3

\* ------------------------------------------------------------------- C36
\* The routes of the candidate list of dispatch d of request q.
CandidateRoutes(q, d) ==
  { disp[q][d].routes[k].route : k \in 1..Len(disp[q][d].routes) }

\* The walk looks only at candidates of the list, in the order of the list,
\* and when it has exhausted them it has looked at each of them.
WalksItsCandidates ==
  \A q \in Requests : \A d \in 1..Len(disp[q]) :
    /\ \A n \in Events(q) :
         (Examines(q, n) /\ log[q][n].d = d)
           => log[q][n].i \in CandidateRoutes(q, d)
    /\ \A m, n \in Events(q) :
         (m < n /\ Examines(q, m) /\ Examines(q, n)
            /\ log[q][m].d = d /\ log[q][n].d = d)
           => log[q][m].i < log[q][n].i
    /\ (\E n \in Events(q) : Is(q, n, "done", d))
         => \A i \in CandidateRoutes(q, d) :
              \E n \in Events(q) : Examines(q, n) /\ log[q][n].d = d
                                     /\ log[q][n].i = i

\* The list of a dispatch is what router.match gave when the dispatch
\* started, and no step changes it.
CandidatesAreFixed ==
  \A q \in Requests : \A d \in 1..Len(disp'[q]) :
    IF d <= Len(disp[q])
      THEN disp'[q][d].routes = disp[q][d].routes
      ELSE disp'[q][d].routes = routerMatch(disp'[q][d].r, disp'[q][d].pathname)

\* C36: the candidates of a dispatch are those of the route table at the
\* moment the dispatch starts; a route registered while the request is
\* suspended inside a handler is not looked at by this dispatch, and the
\* candidates still to walk and their order stay as they were.
CandidateListIsFixedAtStart ==
  /\ []WalksItsCandidates
  /\ [][CandidatesAreFixed]_vars

\* The request finished after walking its one candidate to the end, and the
\* table now holds a second route for `GET /a`, registered while the first
\* handler was suspended, that was never invoked.
CandidateListIsFixedAtStartWitness ==
  LET q == First IN
    /\ ctl[q].op = "finished"
    /\ Len(disp[q]) = 1
    /\ Len(disp[q][1].routes) = 1
    /\ Len(routerMatch(Top, Pa)) = 2
    /\ IndexOf(routes[Top][2].methods, "GET")
    /\ \E n \in Events(q) : Is(q, n, "done", 1)
    /\ \A n \in Events(q) : log[q][n].e = "invoke" => log[q][n].i = 1

\* ------------------------------------------------------------------- C37
\* C37: no step of a request, from its start through matching and the walk
\* to its end, changes the routes of a router (their order, patterns,
\* methods, parameters and composed chains), its accepted methods, its
\* options or its parameter functions.
DispatchLeavesTablesAlone ==
  [][(\E q \in Requests : Step(q))
       => UNCHANGED <<routes, methods, opts, routerParams>>]_vars

\* A request over two routes of Top, one skipped and one invoked, has
\* finished.
DispatchLeavesTablesAloneWitness ==
  LET q == First IN
    /\ ctl[q].op = "finished"
    /\ Len(routes[Top]) = 2
    /\ \E n \in Events(q) : log[q][n].e = "skip"
    /\ \E n \in Events(q) : log[q][n].e = "invoke"
    /\ \E n \in Events(q) : log[q][n].e = "resume"

\* ------------------------------------------------------------------- C38
\* C38: a call that raises, which in this specification are the
\* registrations whose Route could not be constructed, leaves the routes,
\* the accepted methods, the parameter functions and the options of the
\* router as they were before the call.
FailedRegistrationChangesNothing ==
  [][result'.kind = "threw"
       => UNCHANGED <<routes, methods, routerParams, opts>>]_vars

\* After two routes and a parameter function were registered, a
\* registration with an illegal middleware raised its Error.
FailedRegistrationChangesNothingWitness ==
  /\ result.kind = "threw"
  /\ result.type = "Error"
  /\ Len(routes[Top]) = 2
  /\ routerParams[Top] # <<>>

\* ------------------------------------------------------------------- C39
\* Event n of request q is the fallback of a dispatch written for an
\* OPTIONS request.
OptionsFallback(q, n) ==
  log[q][n].e = "synth" /\ log[q][n].ctx.method = "OPTIONS"

\* C39: whenever a dispatch synthesizes the fallback for an OPTIONS request
\* the status it writes is 204, OPTIONS being an accepted method of every
\* router, and the Allow header it sets names at least one method and not
\* OPTIONS.
OptionsFallbackIsAlways204 ==
  /\ \A r \in RouterIds : IndexOf(methods[r], "OPTIONS")
  /\ \A q \in Requests : \A n \in Events(q) :
       OptionsFallback(q, n) =>
         /\ log[q][n].ctx.status = 204
         /\ log[q][n].ctx.statusMessage = 204
         /\ log[q][n].ctx.allowSet
         /\ log[q][n].ctx.allow # <<>>
         /\ ~IndexOf(log[q][n].ctx.allow, "OPTIONS")

\* The sub-router under a prefix route of Top wrote the fallback of an
\* OPTIONS request: 204 and one method in Allow.
OptionsFallbackIsAlways204Witness ==
  \E q \in Requests : \E n \in Events(q) :
    /\ OptionsFallback(q, n)
    /\ log[q][n].r = Sub
    /\ Len(log[q][n].ctx.allow) = 1
    /\ ctl[q].op = "finished"

\* ------------------------------------------------------------------- C40
\* Dispatch d of request q wrote the fallback.
WroteFallback(q, d) == \E n \in Events(q) : Is(q, n, "synth", d)

\* C40: the fallback leaves the explicit-status flag unset; and when the
\* router installed second has written its fallback and the router installed
\* first had candidates and took none of them, the request ends with the
\* status and the Allow header of the first router's fallback, written
\* after the second router's.
OuterFallbackOverwritesInner ==
  \A q \in Requests :
    /\ \A n \in Events(q) : log[q][n].e = "synth" => ~log[q][n].ctx.explicit
    /\ (ctl[q].op = "finished" /\ Len(disp[q]) = 2 /\ WroteFallback(q, 2)
          /\ disp[q][1].routes # <<>> /\ ~disp[q][1].called)
         => /\ \E m, n \in Events(q) :
                 m < n /\ Is(q, m, "synth", 2) /\ Is(q, n, "synth", 1)
            /\ ctx[q].status = StatusFor(ctx[q].method, methods[disp[q][1].r])
            /\ ctx[q].allowSet
            /\ ctx[q].allow = join(disp[q][1].methodsAvailable, ", ")
            /\ ~ctx[q].explicit

\* A DELETE request for `/a` finished: the second router, which does not
\* know DELETE, wrote 501, and the first one, which does, wrote 405 over it.
OuterFallbackOverwritesInnerWitness ==
  LET q == First IN
    /\ ctl[q].op = "finished"
    /\ \E m, n \in Events(q) :
         /\ Is(q, m, "synth", 2) /\ log[q][m].ctx.status = 501
         /\ Is(q, n, "synth", 1) /\ log[q][n].ctx.status = 405
    /\ ctx[q].status = 405

====
